---- MODULE Spec2Model ----
(***************************************************************************)
(* A model of the reconciliation layer of jsplumb-react-wrapper: the       *)
(* layout effects of useJsPlumbCanvas that keep the diagramming engine in  *)
(* step with the declared nodes and connections, and the engine event      *)
(* handlers that forward direct-manipulation gestures to the embedder.     *)
(*                                                                         *)
(* One React commit is one step (Render): the DOM update, then the layout  *)
(* effects whose dependencies changed, in declaration order, then the      *)
(* passive effects.  Gestures of the user are steps of their own.          *)
(*                                                                         *)
(* The engine (jsPlumb) is outside the repository.  It is modelled at the  *)
(* call sites: connect appends a connection and fires the connection       *)
(* event without a pointer event; deleteConnection with fireEvent false is *)
(* silent and a no-op on a connection already deleted; deleteEndpoint and  *)
(* unmanage delete the connections of the endpoints they remove and fire   *)
(* the detached event for each; getConnections lists the live connections  *)
(* in creation order.                                                      *)
(***************************************************************************)
EXTENDS Integers, Sequences, FiniteSets, TLC

VARIABLES
    nodes,            \* props.nodes of the last render: set of [id, ports]
    connections,      \* props.connections of the last render: sequence
    readonly,         \* props.readonly of the last render
    managed,          \* engine: identities of the managed node elements
    endpoints,        \* engine: the live endpoints, [uuid, nodeId, portId]
    conns,            \* engine: the live connections, in creation order
    endpointMapRef,   \* endpointMapRef.current: uuids it holds
    connectionMapRef, \* connectionMapRef.current: id -> index in conns, 0 = a deleted connection
    nodeAttr,         \* mounted node elements that carry NODE_ID_ATTRIBUTE
    endpointAttr,     \* engine: uuid -> [anchor, isSource, isTarget] of the live endpoints
    elementAttr,      \* managed node elements: id -> [left, top, draggable]
    syncingRef,       \* syncingRef.current between steps
    notes,            \* notifications the last step delivered to the embedder
    ops,              \* engine mutations the last step made
    last,             \* what the last step was
    pending,          \* ids the last connection pass skipped: endpoint missing
    stable,           \* consecutive full passes over the same declared lists
    selectedNodes,    \* props.selectedNodes: Undefined or a set of node ids
    selectedConnections, \* props.selectedConnections: Undefined or a set of connection ids
    allowMultiSelect, \* props.allowMultiSelect
    internalSelection,\* useSelectionManager state: [nodes, connections]
    zoomProp,         \* props.zoom: Undefined or a number
    zoomState,        \* usePanZoom state zoomState
    zoomRef,          \* zoomRef.current, what getZoom() returns
    pan,              \* usePanZoom state pan: [x, y]
    panRef,           \* panRef.current
    engineZoom,       \* engine: the zoom factor of the current instance
    wheels,           \* wheel zoom steps that moved the pan so far
    panStartRef,      \* panStartRef.current: None or [x, y, originX, originY]
    listeners,        \* window: the mousemove / mouseup listeners of the component, as registered
    mounted,          \* whether the component is mounted
    drag,             \* the drag gesture as the user makes it: [active, start, origin, count]
    gesture           \* the pointer gesture or handle call of the last step

selVars == <<selectedNodes, selectedConnections, allowMultiSelect, internalSelection>>

zoomVars == <<zoomProp, zoomState, zoomRef, pan, panRef, engineZoom>>

panVars == <<panStartRef, listeners, mounted, drag>>

engineVars == <<nodes, connections, readonly, managed, endpoints, conns, endpointMapRef,
                connectionMapRef, nodeAttr, endpointAttr, elementAttr, syncingRef, ops,
                pending, stable>>

vars == <<nodes, connections, readonly, managed, endpoints, conns, endpointMapRef,
          connectionMapRef, nodeAttr, endpointAttr, elementAttr, syncingRef, notes, ops,
          last, pending, stable,
          selVars, zoomVars, wheels, panVars, gesture>>

----------------------------------------------------------------------------
(* Bounds of the model. *)

\* how many connections the user draws before the model stops drawing more
MaxLive == 2
\* how many connections a declared list holds
MaxDecl == 2
\* how many consecutive identical full passes are counted
MaxStable == 2
\* how many wheel zoom steps that move the pan the user makes
MaxWheel == 2

\* how far, in units of the fixed point, the focused centre may lie from the
\* centre of the viewport: the rounding of one quotient and one product
FocusTolerance == 1
\* how many drag gestures the user starts
MaxDrag == 2

----------------------------------------------------------------------------
(* The universe the inputs are drawn from. *)

Undefined == "undefined"
Null == [null |-> TRUE]

DEFAULT_PORT_ID == "default"

\* an optional prop: None when the embedder leaves it undefined, Some(v) otherwise
None == <<>>
Some(v) == <<v>>
\* o ?? d
OrElse(o, d) == IF o = None THEN d ELSE o[1]

NodeIds == {"a", "b"}
ConnIds == {"e1", "e2"}

\* a declared port: its id, props anchor and mode (Undefined when left out)
NodePort(id, anchor, mode) == [id |-> id, anchor |-> anchor, mode |-> mode]

\* a declared node: ports holds the ids of the declared ports, specs the ports
FlowNode(id, specs, position, disableDrag) ==
    [id |-> id, ports |-> {q.id : q \in specs}, specs |-> specs, position |-> position,
     disableDrag |-> disableDrag]

\* declared positions, in units of 1/100 pixel
PositionA == [x |-> 4000, y |-> 3000]
PositionB == [x |-> 20050, y |-> 12000]

\* nodes with no declared ports, and one with the single port p
NodeA == FlowNode("a", {}, PositionA, FALSE)
NodeAp == FlowNode("a", {NodePort("p", Undefined, Undefined)}, PositionA, FALSE)
NodeB == FlowNode("b", {}, PositionB, FALSE)

NodeLists == {{NodeB}, {NodeA, NodeB}, {NodeAp, NodeB}}

RefA == [nodeId |-> "a", portId |-> Undefined]
RefAp == [nodeId |-> "a", portId |-> "p"]
RefB == [nodeId |-> "b", portId |-> Undefined]

EndPairs == {<<RefA, RefB>>, <<RefB, RefA>>}

\* a declared connection with its label, className and editable props
\* (Undefined when left out; editable is "true" or "false")
StyledConnection(id, pair, label, className, editable) ==
    [id |-> id, source |-> pair[1], target |-> pair[2], label |-> label,
     className |-> className, editable |-> editable]

FlowConnection(id, pair) == StyledConnection(id, pair, Undefined, Undefined, Undefined)

Ids(list) == {list[i].id : i \in DOMAIN list}

Range(seq) == {seq[i] : i \in DOMAIN seq}

\* the declared lists: identities unique, at most MaxDecl entries
ConnLists ==
    UNION {
        {l \in [1..n -> {FlowConnection(id, pr) : id \in ConnIds, pr \in EndPairs}] :
            Cardinality(Ids(l)) = n}
        : n \in 0..MaxDecl}

----------------------------------------------------------------------------
(* Maps (the Map objects of the source). *)

Put(m, k, v) == [x \in DOMAIN m \cup {k} |-> IF x = k THEN v ELSE m[x]]
Del(m, k) == [x \in DOMAIN m \ {k} |-> m[x]]
Has(m, k) == k \in DOMAIN m
EmptyMap == [x \in {} |-> 0]
Restrict(m, keys) == [x \in DOMAIN m \cap keys |-> m[x]]

----------------------------------------------------------------------------
(* utils/jsPlumbHelpers *)

getEndpointUuid(nodeId, portId) ==
    nodeId \o ":" \o (IF portId = Undefined THEN DEFAULT_PORT_ID ELSE portId)

isSameUuid(conn, source, target) == conn.src.uuid = source /\ conn.tgt.uuid = target

UuidKey(sourceUuid, targetUuid) == sourceUuid \o "|" \o targetUuid

\* closest('.jr-node') of an endpoint's element and the attribute read from it:
\* dom.attached holds the uuids whose port element still has its node element
\* as an ancestor, dom.attr the node elements that carry NODE_ID_ATTRIBUTE
ClosestNodeId(ep, dom) ==
    IF ep.uuid \in dom.attached /\ ep.nodeId \in dom.attr THEN ep.nodeId ELSE Undefined

\* a draft that reports the default port under its reserved identity
toDraftConnectionKeepsDefault(sourceEndpoint, targetEndpoint, dom) ==
    LET sourceNodeId == ClosestNodeId(sourceEndpoint, dom)
        targetNodeId == ClosestNodeId(targetEndpoint, dom)
    IN  IF sourceNodeId = Undefined \/ targetNodeId = Undefined
        THEN Null
        ELSE [source |-> [nodeId |-> sourceNodeId, portId |-> sourceEndpoint.portId],
              target |-> [nodeId |-> targetNodeId, portId |-> targetEndpoint.portId]]

\* toDraftConnection(info), info carrying the two endpoints
toDraftConnection(sourceEndpoint, targetEndpoint, dom) ==
    LET sourceNodeId == ClosestNodeId(sourceEndpoint, dom)
        targetNodeId == ClosestNodeId(targetEndpoint, dom)
        port(ep) == IF ep.portId = DEFAULT_PORT_ID THEN Undefined ELSE ep.portId
    IN  IF sourceNodeId = Undefined \/ targetNodeId = Undefined
        THEN Null
        ELSE [source |-> [nodeId |-> sourceNodeId, portId |-> port(sourceEndpoint)],
              target |-> [nodeId |-> targetNodeId, portId |-> port(targetEndpoint)]]

----------------------------------------------------------------------------
(* The engine's objects. *)

Endpoint(nodeId, portId) ==
    [uuid |-> getEndpointUuid(nodeId, portId), nodeId |-> nodeId, portId |-> portId]

\* a connection object: its two endpoints, the jr-connection-id parameter, the
\* jr-connection-handlers parameter, how often the click handlers were bound,
\* the data.id the bound handlers close over, the ids of its delete overlays,
\* the jr-connection-class parameter, its CSS classes, whether the user can
\* detach it, its label
Connection(source, target) ==
    [src |-> source, tgt |-> target, tag |-> Undefined, marker |-> FALSE,
     nbind |-> 0, hdata |-> Undefined, overlays |-> {}, alive |-> TRUE,
     classParam |-> Undefined, classes |-> {}, detachable |-> TRUE, label |-> ""]

NoOps ==
    [connects |-> {}, connDeleted |-> 0, epAdded |-> {}, epDeleted |-> {},
     binds |-> 0, overlays |-> 0, elRemoved |-> {}, drawn |-> <<>>,
     deadReuse |-> {}]

EffectivePorts(node) == IF node.ports # {} THEN node.ports ELSE {DEFAULT_PORT_ID}

NodeIdsOf(ns) == {n.id : n \in ns}

\* the DOM between commits: every live endpoint sits on a mounted port element
SteadyDom == [attached |-> {e.uuid : e \in endpoints}, attr |-> nodeAttr]

----------------------------------------------------------------------------
(* The engine event handlers bound at instance creation. *)

\* a handler that rolls the connection back on any falsy return value
OnConnectionFalsy(syncing, originalEvent, draft, result) ==
    IF syncing \/ ~originalEvent
    THEN [notes |-> <<>>, veto |-> FALSE]
    ELSE IF draft = Null
    THEN [notes |-> <<>>, veto |-> FALSE]
    ELSE [notes |-> <<[type |-> "onLinkCreate", draft |-> draft, returned |-> result]>>,
          veto |-> (result \in {"false", "void"})]

\* EVENT_CONNECTION: the calls of the embedder's handlers it makes, each with
\* what the handler returned, and whether the connection is deleted again;
\* result is what props.onLinkCreate returns
OnConnection(syncing, originalEvent, draft, result) ==
    IF syncing \/ ~originalEvent
    THEN [notes |-> <<>>, veto |-> FALSE]
    ELSE IF draft = Null
    THEN [notes |-> <<>>, veto |-> FALSE]
    ELSE [notes |-> <<[type |-> "onLinkCreate", draft |-> draft, returned |-> result]>>,
          veto |-> (result = "false")]

\* a handler that does not look at syncingRef
OnConnectionDetachedUnguarded(syncing, draft) ==
    IF draft = Null
    THEN <<>>
    ELSE <<[type |-> "onLinkDetached", draft |-> draft, returned |-> "void"]>>

\* EVENT_CONNECTION_DETACHED: the notifications delivered
OnConnectionDetached(syncing, draft) ==
    IF syncing
    THEN <<>>
    ELSE IF draft = Null
    THEN <<>>
    ELSE <<[type |-> "onLinkDetached", draft |-> draft, returned |-> "void"]>>

----------------------------------------------------------------------------
(* Engine operations on a working copy w = [objs, notes, ops] of the        *)
(* connections, the notifications and the mutation log of the current step. *)

\* jp.deleteConnection(connection, { fireEvent: false })
DeleteConnectionSilently(w, i) ==
    IF w.objs[i].alive
    THEN [w EXCEPT !.objs[i].alive = FALSE, !.ops.connDeleted = @ + 1]
    ELSE w

\* the engine deleting the connections of removed endpoints, each with a
\* detached event, from connection i on
RECURSIVE DetachFrom(_, _, _, _, _)
DetachFrom(w, i, gone, syncing, dom) ==
    IF i > Len(w.objs)
    THEN w
    ELSE LET c == w.objs[i]
         IN  IF c.alive /\ (c.src.uuid \in gone \/ c.tgt.uuid \in gone)
             THEN DetachFrom(
                    [w EXCEPT !.objs[i].alive = FALSE,
                              !.ops.connDeleted = @ + 1,
                              !.notes = @ \o OnConnectionDetached(
                                             syncing, toDraftConnection(c.src, c.tgt, dom))],
                    i + 1, gone, syncing, dom)
             ELSE DetachFrom(w, i + 1, gone, syncing, dom)

\* jp.deleteEndpoint / jp.unmanage for the endpoints with the uuids in gone
DeleteEndpoints(w, gone, syncing, dom) ==
    LET d == DetachFrom(w, 1, gone, syncing, dom)
    IN  [d EXCEPT !.ops.epDeleted = @ \cup gone]

----------------------------------------------------------------------------
(* The layout effects of useJsPlumbCanvas, on the working copy                *)
(* w = [objs, notes, ops, managed, endpoints, emap, cmap, skipped].           *)

\* the DOM the layout effects of a commit see: React has unmounted the port
\* elements of removed ports (their node element is no ancestor any more) and
\* has detached the elements of removed nodes as whole subtrees
CommitDom(w, declared, attr) ==
    [attached |->
        {e.uuid : e \in {x \in w.endpoints :
            \A n \in declared : n.id = x.nodeId => x.portId \in EffectivePorts(n)}},
     attr |-> attr]

\* the node a declared list holds under an identity
NodeOf(declared, id) == CHOOSE n \in declared : n.id = id

\* `${value}px`
Px(value) == <<value, "px">>

\* a drag flag that looks at readonly only
DraggableIgnoresNode(node, isReadonly) ==
    ~isReadonly

\* !(readonly || node.disableDrag)
Draggable(node, isReadonly) ==
    ~(isReadonly \/ node.disableDrag)

\* jp.unmanage(element, removeElement) for the node elements ids; the
\* endpoints of the elements go through DeleteEndpoints
unmanage(w, ids, removeElement) ==
    [w EXCEPT !.managed = @ \ ids,
              !.elAttr = Restrict(@, DOMAIN @ \ ids),
              !.ops.elRemoved = @ \cup (IF removeElement THEN ids ELSE {})]

\* style.left, style.top, jp.manage and jp.setDraggable for one declared node
ManageNode(w, node, isReadonly) ==
    [w EXCEPT !.managed = @ \cup {node.id},
              !.elAttr = Put(@, node.id,
                             [left |-> Px(node.position.x), top |-> Px(node.position.y),
                              draggable |-> Draggable(node, isReadonly)])]

RECURSIVE ManageAll(_, _, _)
ManageAll(w, todo, isReadonly) ==
    IF todo = {}
    THEN w
    ELSE LET node == CHOOSE n \in todo : TRUE
         IN  ManageAll(ManageNode(w, node, isReadonly), todo \ {node}, isReadonly)

\* the node layout effect: unmanage what is no longer declared, manage the
\* rest; every declared node has its element registered (the ref callbacks of
\* the node elements run in the commit before the layout effects)
NodeSync(w, declared, isReadonly, dom) ==
    LET validNodeIds == NodeIdsOf(declared)
        unmanaged == w.managed \ validNodeIds
        gone == {e \in w.endpoints : e.nodeId \in unmanaged}
        d == DeleteEndpoints(w, {e.uuid : e \in gone}, TRUE, dom)
        u == unmanage([d EXCEPT !.endpoints = @ \ gone,
                                !.epAttr = Restrict(@, DOMAIN @ \ {e.uuid : e \in gone})],
                      unmanaged, FALSE)
    IN  ManageAll(u, declared, isReadonly)

\* the passive effect that sets the drag flag of every declared node's element
draggableEffect(w, declared, isReadonly) ==
    [w EXCEPT !.elAttr =
        [id \in DOMAIN @ |->
            IF id \in NodeIdsOf(declared)
            THEN [@[id] EXCEPT !.draggable = Draggable(NodeOf(declared, id), isReadonly)]
            ELSE @[id]]]

\* node.ports && node.ports.length > 0 ? node.ports : [{ id: DEFAULT_PORT_ID }]
PortSpecs(node) ==
    IF node.specs # {} THEN node.specs ELSE {NodePort(DEFAULT_PORT_ID, Undefined, Undefined)}

\* endpoint options that take an absent mode for a source
EndpointOptionsAbsentIsSource(port) ==
    [anchor |-> IF port.anchor = Undefined THEN "AutoDefault" ELSE port.anchor,
     isSource |-> port.mode # "target",
     isTarget |-> port.mode = "target"]

\* the anchor and the flags synchronizeEndpoints gives the endpoint of a port
EndpointOptions(port) ==
    [anchor |-> IF port.anchor = Undefined THEN "AutoDefault" ELSE port.anchor,
     isSource |-> port.mode # "target",
     isTarget |-> port.mode # "source"]

\* the ports synchronizeEndpoints walks, each under its endpoint identity
NextPorts(declared) ==
    UNION {{[uuid |-> getEndpointUuid(n.id, q.id), port |-> q] : q \in PortSpecs(n)}
           : n \in declared}

\* a synchronizer that replaces the map and deletes nothing
synchronizeEndpointsKeepsStale(w, declared, dom) ==
    LET nextEndpoints == UNION {{Endpoint(n.id, p) : p \in EffectivePorts(n)} : n \in declared}
        added == {e \in nextEndpoints : e.uuid \notin w.emap}
    IN  [w EXCEPT !.endpoints = @ \cup added,
                  !.ops.epAdded = @ \cup {e.uuid : e \in added},
                  !.emap = {e.uuid : e \in nextEndpoints}]

\* synchronizeEndpoints
synchronizeEndpoints(w, declared, dom) ==
    LET nextEndpoints == UNION {{Endpoint(n.id, p) : p \in EffectivePorts(n)} : n \in declared}
        nextUuids == {e.uuid : e \in nextEndpoints}
        added == {e \in nextEndpoints : e.uuid \notin w.emap}
        stale == {e \in w.endpoints : e.uuid \in w.emap /\ e.uuid \notin nextUuids}
        d == DeleteEndpoints(w, {e.uuid : e \in stale}, FALSE, dom)
        live == (d.endpoints \ stale) \cup added
        options(uuid) == EndpointOptions((CHOOSE x \in NextPorts(declared) : x.uuid = uuid).port)
    IN  [d EXCEPT !.endpoints = live,
                  !.epAttr = [uuid \in {e.uuid : e \in live} |->
                                 IF uuid \in nextUuids THEN options(uuid) ELSE @[uuid]],
                  !.ops.epAdded = @ \cup {e.uuid : e \in added},
                  !.emap = nextUuids]

\* attachConnectionHandlers
attachConnectionHandlers(w, i, data) ==
    IF w.objs[i].marker
    THEN w
    ELSE [w EXCEPT !.objs[i].marker = TRUE,
                   !.objs[i].nbind = @ + 1,
                   !.objs[i].hdata = data.id,
                   !.ops.binds = @ + 1]

\* ensureDeleteOverlay
ensureDeleteOverlay(w, i, data) ==
    IF data.id \in w.objs[i].overlays
    THEN w
    ELSE [w EXCEPT !.objs[i].overlays = @ \cup {data.id},
                   !.ops.overlays = @ + 1]

\* updateConnectionMetadata; w.selected is selection.connections of the render
\* the callback was made in
updateConnectionMetadata(w, i, data) ==
    LET c == w.objs[i]
        previousClass == c.classParam
        removed == IF previousClass \notin {Undefined, ""} /\ previousClass # data.className
                   THEN {previousClass} ELSE {}
        own == IF data.className \notin {Undefined, ""} THEN {data.className} ELSE {}
        marked == IF data.id \in Range(w.selected) THEN {"jr-selected"} ELSE {}
    IN  [w EXCEPT !.objs[i] =
            [c EXCEPT !.tag = data.id,
                      !.classParam = IF data.className = Undefined THEN "" ELSE data.className,
                      !.classes = ((((c.classes \ removed) \cup own) \cup {"jr-connection"})
                                      \ {"jr-selected"}) \cup marked,
                      !.detachable = (data.editable # "false"),
                      !.label = IF data.label = Undefined THEN "" ELSE data.label]]

\* the passive effect on selection.connections: connectionMapRef.current.forEach
\* with the entries in the sequence order
RECURSIVE selectionEffect(_, _, _)
selectionEffect(w, order, k) ==
    IF k > Len(order)
    THEN w
    ELSE LET id == order[k]
             i == w.cmap[id]
             next == IF i = 0 \/ ~w.objs[i].alive
                     THEN w
                     ELSE [w EXCEPT !.objs[i].classes =
                              IF id \in Range(w.selected)
                              THEN @ \cup {"jr-selected"}
                              ELSE @ \ {"jr-selected"}]
         IN  selectionEffect(next, order, k + 1)

\* the orders a Map's forEach may visit the keys in
Orders(keys) ==
    {f \in [1..Cardinality(keys) -> keys] : {f[k] : k \in 1..Cardinality(keys)} = keys}

\* the maps the connection pass builds from flattenConnections(instance)
RECURSIVE ExistingFrom(_, _, _)
ExistingFrom(objs, i, m) ==
    IF i > Len(objs)
    THEN m
    ELSE ExistingFrom(objs, i + 1,
            IF objs[i].alive /\ objs[i].tag # Undefined THEN Put(m, objs[i].tag, i) ELSE m)

RECURSIVE ByUuidFrom(_, _, _)
ByUuidFrom(objs, i, m) ==
    IF i > Len(objs)
    THEN m
    ELSE ByUuidFrom(objs, i + 1,
            IF objs[i].alive
            THEN Put(m, UuidKey(objs[i].src.uuid, objs[i].tgt.uuid), i)
            ELSE m)

\* a guard that resolves the source endpoint only
ResolvableSourceOnly(w, sourceUuid, targetUuid) ==
    sourceUuid \in w.emap

\* the endpoint-resolution guard of the connection pass
Resolvable(w, sourceUuid, targetUuid) ==
    sourceUuid \in w.emap /\ targetUuid \in w.emap

\* jp.connect({ uuids: [sourceUuid, targetUuid], ... }) inside a pass: the new
\* connection, or none when the engine lacks an endpoint; the connection event
\* it fires carries no pointer event
Connect(w, sourceUuid, targetUuid, syncing, dom) ==
    LET eps == {e.uuid : e \in w.endpoints}
    IN  IF sourceUuid \in eps /\ targetUuid \in eps
        THEN LET source == CHOOSE e \in w.endpoints : e.uuid = sourceUuid
                 target == CHOOSE e \in w.endpoints : e.uuid = targetUuid
                 fired == OnConnection(syncing, FALSE,
                                       toDraftConnection(source, target, dom), "void")
             IN  [w EXCEPT !.objs = Append(@, Connection(source, target)),
                           !.notes = @ \o fired.notes]
        ELSE w

\* whether the pass takes the connection found under data.id in existing
KeepExisting(connection, sourceUuid, targetUuid) ==
    isSameUuid(connection, sourceUuid, targetUuid)

\* the connection the pass reuses by endpoint pair, 0 for none
Reused(p, key) == IF Has(p.byUuid, key) THEN p.byUuid[key] ELSE 0

\* one iteration of connections.forEach in the connection layout effect;
\* ops.deadReuse records the identities given a connection that the pass had
\* already deleted
ReconcileOne(p, data, dom) ==
    LET w == p.w
        sourceUuid == getEndpointUuid(data.source.nodeId, data.source.portId)
        targetUuid == getEndpointUuid(data.target.nodeId, data.target.portId)
        found == IF Has(p.existing, data.id) THEN p.existing[data.id] ELSE 0
        mismatch == found # 0 /\ ~KeepExisting(w.objs[found], sourceUuid, targetUuid)
        w1 == IF mismatch
              THEN [DeleteConnectionSilently(w, found) EXCEPT !.cmap = Del(@, data.id)]
              ELSE w
        kept == IF mismatch THEN 0 ELSE found
        key == UuidKey(sourceUuid, targetUuid)
        reused == IF kept = 0 THEN Reused(p, key) ELSE 0
        byUuid1 == IF reused # 0 THEN Del(p.byUuid, key) ELSE p.byUuid
        connection == IF kept # 0 THEN kept ELSE reused
    IN  IF ~Resolvable(w, sourceUuid, targetUuid)
        THEN [p EXCEPT !.w.skipped = @ \cup {data.id}]
        ELSE IF connection = 0
        THEN LET w2 == [Connect(w1, sourceUuid, targetUuid, TRUE, dom)
                            EXCEPT !.ops.connects = @ \cup {data.id}]
                 new == Len(w2.objs)
             IN  IF new = Len(w1.objs)
                 THEN [p EXCEPT !.w = w2, !.byUuid = byUuid1]
                 ELSE LET w3 == ensureDeleteOverlay(
                                    attachConnectionHandlers(w2, new, data), new, data)
                          w4 == updateConnectionMetadata(
                                    [w3 EXCEPT !.cmap = Put(@, data.id, new)], new, data)
                      IN  [w |-> w4, existing |-> Del(p.existing, data.id),
                           byUuid |-> byUuid1]
        ELSE LET seen == IF w1.objs[connection].alive
                         THEN w1
                         ELSE [w1 EXCEPT !.ops.deadReuse = @ \cup {data.id}]
                 w3 == ensureDeleteOverlay(
                           attachConnectionHandlers(seen, connection, data), connection, data)
                 w4 == updateConnectionMetadata(
                           [w3 EXCEPT !.cmap = Put(@, data.id, connection)],
                           connection, data)
             IN  [w |-> w4, existing |-> Del(p.existing, data.id), byUuid |-> byUuid1]

RECURSIVE ReconcileFrom(_, _, _, _)
ReconcileFrom(p, list, i, dom) ==
    IF i > Len(list)
    THEN p
    ELSE ReconcileFrom(ReconcileOne(p, list[i], dom), list, i + 1, dom)

\* existing.forEach after the loop: what was not claimed is deleted
RECURSIVE RemoveUnclaimed(_, _)
RemoveUnclaimed(w, existing) ==
    IF DOMAIN existing = {}
    THEN w
    ELSE LET id == CHOOSE x \in DOMAIN existing : TRUE
         IN  RemoveUnclaimed(
                [DeleteConnectionSilently(w, existing[id]) EXCEPT !.cmap = Del(@, id)],
                Del(existing, id))

\* the connection layout effect
ConnectionPass(w, list, dom) ==
    LET start == [w |-> [w EXCEPT !.skipped = {}],
                  existing |-> ExistingFrom(w.objs, 1, EmptyMap),
                  byUuid |-> ByUuidFrom(w.objs, 1, EmptyMap)]
        done == ReconcileFrom(start, list, 1, dom)
    IN  RemoveUnclaimed(done.w, done.existing)

----------------------------------------------------------------------------
(* The selection manager (useSelectionManager) and the click handlers.  A   *)
(* selection list is a sequence of identities, as the arrays of the code.   *)

\* Array.from(new Set(values)): the first occurrence of each value, in order
RECURSIVE uniqueList(_)
uniqueList(values) ==
    IF values = <<>>
    THEN <<>>
    ELSE LET front == uniqueList(SubSeq(values, 1, Len(values) - 1))
             x == values[Len(values)]
         IN  IF x \in Range(front) THEN front ELSE Append(front, x)

\* the useMemo value selection: a supplied set wins over the internal one
selection ==
    [nodes |-> OrElse(selectedNodes, internalSelection.nodes),
     connections |-> OrElse(selectedConnections, internalSelection.connections)]

\* the modifier keys of a pointer event
PointerEvents ==
    {[metaKey |-> m, ctrlKey |-> c, shiftKey |-> s] :
        <<m, c, s>> \in {<<FALSE, FALSE, FALSE>>, <<TRUE, FALSE, FALSE>>,
                         <<FALSE, TRUE, FALSE>>, <<FALSE, FALSE, TRUE>>}}

\* allowMultiSelectRef.current && (event.metaKey || event.ctrlKey || event.shiftKey)
Multi(event) == allowMultiSelect /\ (event.metaKey \/ event.ctrlKey \/ event.shiftKey)

\* new Set(list) with id deleted when present and added otherwise
ToggleIn(list, id) ==
    LET current == uniqueList(list)
    IN  IF id \in Range(current)
        THEN SelectSeq(current, LAMBDA x : x # id)
        ELSE Append(current, id)

\* emitSelection on the state g = [internal, notes] of a gesture in progress
emitSelection(g, nextNodes, nextConnections) ==
    [internal |->
        [nodes |-> IF selectedNodes = None THEN nextNodes ELSE g.internal.nodes,
         connections |-> IF selectedConnections = None
                         THEN nextConnections ELSE g.internal.connections],
     notes |-> Append(g.notes,
        [type |-> "onSelectionChange",
         selection |-> [nodes |-> OrElse(selectedNodes, nextNodes),
                        connections |-> OrElse(selectedConnections, nextConnections)]])]

\* a node click that toggles whatever the modifier keys are
updateNodeSelectionAlwaysToggle(g, nodeId, event) ==
    emitSelection(g, uniqueList(ToggleIn(selection.nodes, nodeId)),
                  uniqueList(selection.connections))

\* updateNodeSelection; selectionRef.current is the selection rendered last
updateNodeSelection(g, nodeId, event) ==
    LET multi == Multi(event)
        nextNodes == IF multi THEN ToggleIn(selection.nodes, nodeId) ELSE <<nodeId>>
        nextConnections == IF multi THEN selection.connections ELSE <<>>
    IN  emitSelection(g, uniqueList(nextNodes), uniqueList(nextConnections))

\* clearSelection
clearSelection(g) == emitSelection(g, <<>>, <<>>)

\* handleNodeClick
handleNodeClick(g, nodeId, event) ==
    LET u == updateNodeSelection(g, nodeId, event)
    IN  [u EXCEPT !.notes = Append(@, [type |-> "onNodeClick", id |-> nodeId])]

\* the EVENT_CLICK handler attachConnectionHandlers bound with data.id = dataId
OnConnectionClick(g, dataId, event) ==
    LET multi == Multi(event)
        nextConnections == IF multi THEN ToggleIn(selection.connections, dataId)
                           ELSE <<dataId>>
        nextNodes == IF multi THEN selection.nodes ELSE <<>>
        u == emitSelection(g, uniqueList(nextNodes), uniqueList(nextConnections))
    IN  [u EXCEPT !.notes = Append(@, [type |-> "onLinkClick", id |-> dataId])]

\* a canvas click handler that notifies and leaves the selection alone
handleCanvasClickKeepsSelection(g, inside) ==
    IF inside
    THEN g
    ELSE [g EXCEPT !.notes = Append(@, [type |-> "onCanvasClick"])]

\* handleCanvasClick; inside says whether target.closest finds a node, a port
\* or a connection-delete button
handleCanvasClick(g, inside) ==
    IF inside
    THEN g
    ELSE LET u == clearSelection(g)
         IN  [u EXCEPT !.notes = Append(@, [type |-> "onCanvasClick"])]

\* the click listener of a connection's delete button
OnDeleteButtonClick(g, dataId) ==
    IF Has(connectionMapRef, dataId)
    THEN [g EXCEPT !.notes = Append(@, [type |-> "onDeleteLink", id |-> dataId])]
    ELSE g

\* where a click lands: the canvas background, a node element or a port
\* element inside it, the connector of a live connection (id is the data.id its
\* click handler was bound with, Undefined when it has no handler; tag is the
\* jr-connection-id parameter the connection carries), or the button of a
\* delete overlay (id is the data.id the button was created with)
ClickTargets ==
    {[kind |-> "background", id |-> Undefined, tag |-> Undefined]}
    \cup {[kind |-> k, id |-> n, tag |-> Undefined] :
             k \in {"node", "port"}, n \in NodeIdsOf(nodes)}
    \cup {[kind |-> "connection", id |-> conns[i].hdata, tag |-> conns[i].tag] :
             i \in DOMAIN conns}
    \cup {[kind |-> "deleteButton", id |-> o, tag |-> Undefined] :
             o \in UNION {conns[i].overlays : i \in DOMAIN conns}}

\* target.closest('.jr-node') || target.closest('.jr-port') ||
\* target.closest('.jr-connection-delete-button')
InsideNodePortOrDelete(target) == target.kind \in {"node", "port", "deleteButton"}

\* one click through the DOM: the listener on the target first (the node
\* element's onClick and the delete button's listener stop the propagation,
\* the connection's click handler does not), then onClick of the canvas element
Dispatch(target, event) ==
    LET g == [internal |-> internalSelection, notes |-> <<>>]
    IN  CASE target.kind \in {"node", "port"} -> handleNodeClick(g, target.id, event)
          [] target.kind = "deleteButton" -> OnDeleteButtonClick(g, target.id)
          [] target.kind = "connection" ->
                handleCanvasClick(
                    IF target.id = Undefined THEN g
                    ELSE OnConnectionClick(g, target.id, event),
                    InsideNodePortOrDelete(target))
          [] OTHER -> handleCanvasClick(g, InsideNodePortOrDelete(target))

\* handleNodeDoubleClick: it stops the propagation and notifies
handleNodeDoubleClick(g, nodeId) ==
    [g EXCEPT !.notes = Append(@, [type |-> "onNodeDoubleClick", id |-> nodeId])]

\* the EVENT_DBL_CLICK handler attachConnectionHandlers bound with data.id = dataId
OnConnectionDblClick(g, dataId) ==
    [g EXCEPT !.notes = Append(@, [type |-> "onLinkDoubleClick", id |-> dataId])]

\* one dblclick event through the DOM: the canvas element has no listener for it
DispatchDblClick(target) ==
    LET g == [internal |-> internalSelection, notes |-> <<>>]
    IN  CASE target.kind \in {"node", "port"} -> handleNodeDoubleClick(g, target.id)
          [] target.kind = "connection" /\ target.id # Undefined ->
                OnConnectionDblClick(g, target.id)
          [] OTHER -> g

----------------------------------------------------------------------------
(* The pan/zoom controller (usePanZoom).  Zoom factors, pixel coordinates   *)
(* and graph coordinates are numbers of finite precision; the model holds   *)
(* them in fixed point, as integer multiples of 1/Scale, and rounds every   *)
(* product and quotient to the nearest representable value.                 *)

\* the fixed-point unit: 1.0 is Scale
Scale == 100

\* the defaults of FlowCanvas: minZoom = 0.25, maxZoom = 2, zoomStep = 0.1
minZoom == Scale \div 4
maxZoom == 2 * Scale
zoomStep == Scale \div 10
\* useState(zoomProp ?? 1) and resetZoom: 1
UnitZoom == Scale
\* the zoom of an engine instance nobody called setZoom on
EngineDefaultZoom == Scale

Min(a, b) == IF a <= b THEN a ELSE b
Max(a, b) == IF a >= b THEN a ELSE b

\* the integer nearest to n / d, for d > 0
RoundDiv(n, d) == (2 * n + d) \div (2 * d)
\* a * b and a / b on fixed-point numbers
Times(a, b) == RoundDiv(a * b, Scale)
Over(a, b) == RoundDiv(a * Scale, b)

\* a clamp that has no upper bound
clampZoomBelowOnly(value) ==
    Max(minZoom, value)

clampZoom(value) ==
    Min(maxZoom, Max(minZoom, value))

\* setZoomInternal on z = [zoomState, zoomRef, engineZoom]: the instance
\* exists once the component is mounted
setZoomInternal(z, value) ==
    LET clamped == clampZoom(value)
    IN  [zoomState |-> clamped, zoomRef |-> clamped, engineZoom |-> clamped]

\* the controller between steps
Zoomed == [zoomState |-> zoomState, zoomRef |-> zoomRef, engineZoom |-> engineZoom]

\* a wheel handler that zooms and leaves the pan where it was
handleWheelKeepsPan(event) ==
    IF ~(event.ctrlKey \/ event.metaKey)
    THEN [zoom |-> Zoomed, pan |-> pan]
    ELSE LET direction == IF event.deltaY > 0 THEN -1 ELSE 1
         IN  [zoom |-> setZoomInternal(Zoomed, zoomRef + direction * zoomStep), pan |-> pan]

\* handleWheel: the zoom and the pan it sets; the canvas sits at the origin of
\* the viewport, so pointerX = event.clientX
handleWheel(event) ==
    IF ~(event.ctrlKey \/ event.metaKey)
    THEN [zoom |-> Zoomed, pan |-> pan]
    ELSE LET graphX == Over(event.clientX - panRef.x, zoomRef)
             graphY == Over(event.clientY - panRef.y, zoomRef)
             direction == IF event.deltaY > 0 THEN -1 ELSE 1
             z == setZoomInternal(Zoomed, zoomRef + direction * zoomStep)
             nextZoom == z.zoomRef
         IN  [zoom |-> z,
              pan |-> [x |-> event.clientX - Times(graphX, nextZoom),
                       y |-> event.clientY - Times(graphY, nextZoom)]]

\* the values the embedder passes as props.zoom or to setZoom
ZoomInputs == {Scale \div 10, 3 * Scale}

\* wheel events: modifier keys, direction and pointer position
WheelEvents ==
    {[ctrlKey |-> k[1], metaKey |-> k[2], deltaY |-> d, clientX |-> q[1], clientY |-> q[2]] :
        k \in {<<FALSE, FALSE>>, <<TRUE, FALSE>>, <<FALSE, TRUE>>},
        d \in {-1, 1},
        q \in {<<0, 0>>, <<120 * Scale, 45 * Scale>>}}

----------------------------------------------------------------------------
(* The drag-pan gesture of usePanZoom.  handlePanMove and handlePanEnd are    *)
(* memoized once, so the window knows one listener function per event type;  *)
(* listeners holds the registrations by type.  The handlers work on          *)
(* g = [panStartRef, listeners, pan].                                        *)

\* window.addEventListener(type, fn): a listener the window already holds for
\* the type is not registered a second time
AddEventListener(ls, type) == IF type \in Range(ls) THEN ls ELSE Append(ls, type)

\* window.removeEventListener(type, fn)
RemoveEventListener(ls, type) ==
    IF type \notin Range(ls)
    THEN ls
    ELSE LET i == CHOOSE k \in DOMAIN ls : ls[k] = type /\ \A j \in 1..(k - 1) : ls[j] # type
         IN  SubSeq(ls, 1, i - 1) \o SubSeq(ls, i + 1, Len(ls))

\* a move handler that takes the pointer position for the pan
handlePanMoveAbsolute(g, event) ==
    IF g.panStartRef = None
    THEN g
    ELSE [g EXCEPT !.pan = [x |-> event.clientX, y |-> event.clientY]]

handlePanMove(g, event) ==
    IF g.panStartRef = None
    THEN g
    ELSE LET start == g.panStartRef[1]
             dx == event.clientX - start.x
             dy == event.clientY - start.y
         IN  [g EXCEPT !.pan = [x |-> start.originX + dx, y |-> start.originY + dy]]

handlePanEnd(g) ==
    [g EXCEPT !.panStartRef = None,
              !.listeners = RemoveEventListener(
                                RemoveEventListener(@, "mousemove"), "mouseup")]

handleCanvasMouseDown(g, event) ==
    IF event.button # 0
    THEN g
    ELSE IF InsideNodePortOrDelete(event.target)
    THEN g
    ELSE [g EXCEPT !.panStartRef = Some([x |-> event.clientX, y |-> event.clientY,
                                          originX |-> panRef.x, originY |-> panRef.y]),
                   !.listeners = AddEventListener(
                                     AddEventListener(@, "mousemove"), "mouseup")]

\* a teardown that leaves the window listeners registered
removePanListenersNever(ls) ==
    ls

\* the cleanup of the teardown effect
removePanListeners(ls) ==
    RemoveEventListener(RemoveEventListener(ls, "mousemove"), "mouseup")

\* the window delivering an event of a type to the listeners registered for it
\* when the event fired, in order of registration
RECURSIVE DeliverFrom(_, _, _, _, _)
DeliverFrom(g, registered, i, type, event) ==
    IF i > Len(registered)
    THEN g
    ELSE IF registered[i] # type
    THEN DeliverFrom(g, registered, i + 1, type, event)
    ELSE DeliverFrom(IF type = "mousemove" THEN handlePanMove(g, event) ELSE handlePanEnd(g),
                     registered, i + 1, type, event)

\* pointer positions, buttons and targets of the mouse events
PointerPositions ==
    {[x |-> 0, y |-> 0], [x |-> 30 * Scale, y |-> -20 * Scale],
     [x |-> 120 * Scale, y |-> 45 * Scale]}

MouseTargets ==
    {[kind |-> k, id |-> Undefined] :
        k \in {"background", "connection", "node", "port", "deleteButton"}}

\* presses: primary or secondary button, on any target
MouseEvents ==
    {[button |-> b, target |-> t, clientX |-> q.x, clientY |-> q.y] :
        b \in {0, 2}, t \in MouseTargets, q \in PointerPositions}

\* movements and releases reach the window whatever is under the pointer
WindowEvents == {e \in MouseEvents : e.button = 0 /\ e.target.kind = "background"}

----------------------------------------------------------------------------
(* focusNode of the imperative handle. *)

\* nodeRefs.current between commits: the ref callback of every node element
\* GraphNodes renders has run before the effects of the canvas
nodeRefs == NodeIdsOf(nodes)

\* canvasRef.current.getBoundingClientRect(): the size of the viewport
CanvasRect == [width |-> 800 * Scale, height |-> 600 * Scale]

\* element.getBoundingClientRect() of a node element: sizes the layout gives
NodeRects == {[width |-> 120 * Scale, height |-> 48 * Scale],
              [width |-> 9133, height |-> 3207]}

\* a centre that is the corner of the node
CenterAtCorner(position, size, z) ==
    RoundDiv(position * z, Scale)

\* (position + size / 2) * zoom: the halving is exact, the product is rounded
CenterAt(position, size, z) ==
    RoundDiv((2 * position + size) * z, 2 * Scale)

\* a focusNode that takes the first declared node when the identity is unknown
focusNodeAnyNode(nodeId, rect) ==
    LET node == IF nodeId \in NodeIdsOf(nodes)
                THEN CHOOSE n \in nodes : n.id = nodeId
                ELSE CHOOSE n \in nodes : TRUE
        width == Over(rect.width, zoomRef)
        height == Over(rect.height, zoomRef)
    IN  [x |-> CanvasRect.width \div 2 - CenterAt(node.position.x, width, zoomRef),
         y |-> CanvasRect.height \div 2 - CenterAt(node.position.y, height, zoomRef)]

\* focusNode(nodeId): the pan it leaves; rect is the bounding rectangle of the
\* node's element
focusNode(nodeId, rect) ==
    IF nodeId \notin NodeIdsOf(nodes) \/ nodeId \notin nodeRefs
    THEN pan
    ELSE LET node == CHOOSE n \in nodes : n.id = nodeId
             width == Over(rect.width, zoomRef)
             height == Over(rect.height, zoomRef)
             centerX == CenterAt(node.position.x, width, zoomRef)
             centerY == CenterAt(node.position.y, height, zoomRef)
         IN  [x |-> CanvasRect.width \div 2 - centerX,
              y |-> CanvasRect.height \div 2 - centerY]

----------------------------------------------------------------------------
(* Steps. *)

Working ==
    [objs |-> conns, notes |-> <<>>, ops |-> NoOps, managed |-> managed,
     endpoints |-> endpoints, emap |-> endpointMapRef, cmap |-> connectionMapRef,
     epAttr |-> endpointAttr, elAttr |-> elementAttr, skipped |-> pending,
     selected |-> selection.connections]

\* the live connections of a working copy, in creation order
Live(objs) == SelectSeq(objs, LAMBDA c : c.alive)

\* where connection i of a working copy sits among the live ones, 0 if deleted
NewIndex(objs, i) ==
    IF i = 0 \/ ~objs[i].alive THEN 0 ELSE Cardinality({j \in 1..i : objs[j].alive})

Remap(cmap, objs) == [id \in DOMAIN cmap |-> NewIndex(objs, cmap[id])]

Step(kind, node, ep, conn) == [kind |-> kind, node |-> node, ep |-> ep, conn |-> conn]

\* no gesture yet
NoGesture == [kind |-> "none"]

\* the selection manager after mount, the selection props left undefined
SelectionInit ==
    /\ selectedNodes = None
    /\ selectedConnections = None
    /\ allowMultiSelect = TRUE
    /\ internalSelection = [nodes |-> <<>>, connections |-> <<>>]

\* the pan/zoom controller after mount with props.zoom = zp: the passive
\* effects ran in hook order, the zoom effect of usePanZoom (no instance yet)
\* before the effect of useJsPlumbCanvas that creates the instance
ZoomInit(zp) ==
    LET z == IF zp = None
             THEN [zoomState |-> UnitZoom, zoomRef |-> UnitZoom]
             ELSE setZoomInternal([zoomState |-> zp[1], zoomRef |-> zp[1],
                                   engineZoom |-> EngineDefaultZoom], zp[1])
    IN  /\ zoomProp = zp
        /\ zoomState = z.zoomState
        /\ zoomRef = z.zoomRef
        /\ pan = [x |-> 0, y |-> 0]
        /\ panRef = [x |-> 0, y |-> 0]
        /\ engineZoom = EngineDefaultZoom
        /\ wheels = 0

\* no drag gesture under way
NoDrag == [active |-> FALSE, start |-> [x |-> 0, y |-> 0], origin |-> [x |-> 0, y |-> 0],
           count |-> 0]

\* the pan gesture state after mount: no gesture, no window listener
PanInit ==
    /\ panStartRef = None
    /\ listeners = <<>>
    /\ mounted = TRUE
    /\ drag = NoDrag

\* the state after mount: the layout effects found no instance and returned,
\* then the passive effect created the instance
Init ==
    /\ nodes \in NodeLists
    /\ connections \in ConnLists
    /\ readonly = FALSE
    /\ managed = {}
    /\ endpoints = {}
    /\ conns = <<>>
    /\ endpointMapRef = {}
    /\ connectionMapRef = EmptyMap
    /\ nodeAttr = {}
    /\ endpointAttr = EmptyMap
    /\ elementAttr = EmptyMap
    /\ syncingRef = FALSE
    /\ notes = <<>>
    /\ ops = NoOps
    /\ last = Step("mount", FALSE, FALSE, FALSE)
    /\ pending = {}
    /\ stable = 0
    /\ SelectionInit
    /\ ZoomInit(None)
    /\ PanInit
    /\ gesture = NoGesture

\* a pass that resets the flag after its body only
AfterPassNoFinally(threw) ==
    threw

\* syncingRef.current after a pass: syncingRef.current = true; try { body }
\* finally { syncingRef.current = false }; threw says whether the body threw
AfterPass(threw) ==
    FALSE

\* what a commit leaves behind: the working copy after the layout effects that
\* ran, then the passive effect that replaces the instance when readonly changed
Commit(w, newNodes, newConns, newReadonly, runNode, runEp, runConn) ==
    LET recreate == newReadonly # readonly
        full == runNode /\ runEp /\ runConn /\ ~recreate
    IN  /\ nodes' = newNodes
        /\ connections' = newConns
        /\ readonly' = newReadonly
        /\ managed' = IF recreate THEN {} ELSE w.managed
        /\ endpoints' = IF recreate THEN {} ELSE w.endpoints
        /\ conns' = IF recreate THEN <<>> ELSE Live(w.objs)
        /\ endpointMapRef' = IF recreate THEN {} ELSE w.emap
        /\ connectionMapRef' = IF recreate THEN EmptyMap ELSE Remap(w.cmap, w.objs)
        /\ nodeAttr' = IF runNode THEN NodeIdsOf(newNodes) ELSE nodeAttr
        /\ endpointAttr' = IF recreate THEN EmptyMap ELSE w.epAttr
        /\ elementAttr' = IF recreate THEN EmptyMap
                          ELSE IF runNode
                          THEN draggableEffect(w, newNodes, newReadonly).elAttr
                          ELSE w.elAttr
        /\ syncingRef' = AfterPass(FALSE)
        /\ notes' = w.notes
        /\ ops' = w.ops
        /\ last' = Step("render", runNode, runEp, runConn)
        /\ pending' = w.skipped
        /\ engineZoom' = IF recreate THEN EngineDefaultZoom ELSE engineZoom
        /\ UNCHANGED <<selVars, zoomProp, zoomState, zoomRef, pan, panRef, wheels, panVars,
                       gesture>>
        /\ stable' = IF ~full THEN 0
                     ELSE IF stable >= 1 /\ newNodes = nodes /\ newConns = connections
                     THEN (IF stable < MaxStable THEN stable + 1 ELSE stable)
                     ELSE 1

\* one commit: the embedder renders with new props; nodesCh and connsCh say
\* whether the dependencies of the node effects (the nodes array) and of the
\* connection effect (the connections array, the selected connections) are new
\* objects.  The layout effects run in declaration order.
Render(newNodes, newConns, newReadonly, nodesCh, connsCh) ==
    LET runNode == nodesCh \/ newReadonly # readonly
        runEp == nodesCh
        runConn == connsCh
        attr == IF runNode THEN nodeAttr \cup NodeIdsOf(newNodes) ELSE nodeAttr
    IN  /\ newNodes # nodes => nodesCh
        /\ newConns # connections => connsCh
        /\ \E w1 \in {IF runNode
                      THEN NodeSync(Working, newNodes, newReadonly,
                                    CommitDom(Working, newNodes, attr))
                      ELSE Working} :
           \E w2 \in {IF runEp
                      THEN synchronizeEndpoints(w1, newNodes, CommitDom(w1, newNodes, attr))
                      ELSE w1} :
           \E w3 \in {IF runConn
                      THEN ConnectionPass(w2, newConns, CommitDom(w2, newNodes, attr))
                      ELSE w2} :
              Commit(w3, newNodes, newConns, newReadonly, runNode, runEp, runConn)

\* the user draws a connection from one live endpoint to another; result is
\* what the embedder's onLinkCreate returns
UserConnect(source, target, result) ==
    LET new == Len(conns) + 1
        w0 == [Working EXCEPT !.objs = Append(@, Connection(source, target))]
        fired == OnConnection(syncingRef, TRUE,
                              toDraftConnection(source, target, SteadyDom), result)
        w1 == [w0 EXCEPT !.notes = @ \o fired.notes]
        w2 == IF fired.veto THEN DeleteConnectionSilently(w1, new) ELSE w1
    IN  /\ source \in endpoints
        /\ target \in endpoints
        /\ source # target
        /\ Len(conns) < MaxLive
        /\ conns' = Live(w2.objs)
        /\ connectionMapRef' = Remap(w2.cmap, w2.objs)
        /\ notes' = w2.notes
        /\ ops' = [w2.ops EXCEPT !.drawn = <<source, target>>]
        /\ last' = Step("connect", FALSE, FALSE, FALSE)
        /\ stable' = 0
        /\ UNCHANGED <<nodes, connections, readonly, managed, endpoints, endpointMapRef,
                       nodeAttr, endpointAttr, elementAttr, syncingRef, pending, selVars,
                       zoomVars, wheels, panVars, gesture>>

\* the user drags connection i off its endpoint
UserDetach(i) ==
    LET c == conns[i]
        w0 == Working
        w1 == [w0 EXCEPT !.objs[i].alive = FALSE,
                         !.ops.connDeleted = @ + 1,
                         !.notes = @ \o OnConnectionDetached(
                                        syncingRef, toDraftConnection(c.src, c.tgt, SteadyDom))]
    IN  /\ i \in DOMAIN conns
        /\ conns' = Live(w1.objs)
        /\ connectionMapRef' = Remap(w1.cmap, w1.objs)
        /\ notes' = w1.notes
        /\ ops' = w1.ops
        /\ last' = Step("detach", FALSE, FALSE, FALSE)
        /\ stable' = 0
        /\ UNCHANGED <<nodes, connections, readonly, managed, endpoints, endpointMapRef,
                       nodeAttr, endpointAttr, elementAttr, syncingRef, pending, selVars,
                       zoomVars, wheels, panVars, gesture>>

\* the commits of an embedder that leaves readonly alone
RenderStep ==
    \E newNodes \in NodeLists, newConns \in ConnLists, nodesCh \in BOOLEAN,
       connsCh \in BOOLEAN :
       Render(newNodes, newConns, readonly, nodesCh, connsCh)

\* the commits that flip readonly: the instance is replaced
RenderReadonlyStep ==
    \E newNodes \in NodeLists, newConns \in ConnLists, nodesCh \in BOOLEAN,
       connsCh \in BOOLEAN :
       Render(newNodes, newConns, ~readonly, nodesCh, connsCh)

UserConnectStep ==
    \E source \in endpoints, target \in endpoints, result \in {"false", "true", "void"} :
       UserConnect(source, target, result)

UserDetachStep == \E i \in DOMAIN conns : UserDetach(i)

Next == RenderStep \/ UserConnectStep \/ UserDetachStep

Spec == Init /\ [][Next]_vars

NextReadonly == Next \/ RenderReadonlyStep

SpecReadonly == Init /\ [][NextReadonly]_vars

----------------------------------------------------------------------------
(* Steps of the selection manager. *)

\* what the layout effects of a commit that keeps the instance leave in the engine
EngineAfter(w) ==
    /\ managed' = w.managed
    /\ endpoints' = w.endpoints
    /\ conns' = Live(w.objs)
    /\ endpointMapRef' = w.emap
    /\ connectionMapRef' = Remap(w.cmap, w.objs)
    /\ ops' = w.ops
    /\ pending' = w.skipped
    /\ stable' = 0
    /\ UNCHANGED <<nodes, connections, readonly, nodeAttr, endpointAttr, elementAttr,
                   syncingRef>>

\* whether a handler called emitSelection
Emitted(ns) == \E k \in DOMAIN ns : ns[k].type = "onSelectionChange"

\* the user clicks: the handlers run, then the commit of the state they set.
\* An emit on an uncontrolled connection set stores a new array, so
\* updateConnectionMetadata is a new callback and the connection effect runs.
Click(target, event) ==
    LET r == Dispatch(target, event)
        runConn == selectedConnections = None /\ Emitted(r.notes)
        shown == [Working EXCEPT !.selected = OrElse(selectedConnections,
                                                     r.internal.connections)]
        w == IF runConn THEN ConnectionPass(shown, connections, SteadyDom) ELSE Working
    IN  /\ target \in ClickTargets
        /\ internalSelection' = r.internal
        /\ notes' = r.notes \o w.notes
        /\ \E order \in Orders(DOMAIN w.cmap) :
              EngineAfter(IF runConn THEN selectionEffect(w, order, 1) ELSE w)
        /\ last' = Step("click", FALSE, FALSE, runConn)
        /\ gesture' = [kind |-> "click", target |-> target, event |-> event,
                       before |-> selection]
        /\ UNCHANGED <<selectedNodes, selectedConnections, allowMultiSelect, zoomVars, wheels,
                       panVars>>

\* the values the embedder supplies for the selection props
NodeSelections == {None, Some(<<"a">>), Some(<<"b", "a">>)}
ConnectionSelections == {None, Some(<<"e1">>)}

\* the embedder renders with other selection props; a new selectedConnections
\* makes the connection effect run
SelectionProps(sn, sc, multi) ==
    LET runConn == sc # selectedConnections
        shown == [Working EXCEPT !.selected = OrElse(sc, internalSelection.connections)]
        w == IF runConn THEN ConnectionPass(shown, connections, SteadyDom) ELSE Working
    IN  /\ <<sn, sc, multi>> # <<selectedNodes, selectedConnections, allowMultiSelect>>
        /\ selectedNodes' = sn
        /\ selectedConnections' = sc
        /\ allowMultiSelect' = multi
        /\ notes' = w.notes
        /\ \E order \in Orders(DOMAIN w.cmap) :
              EngineAfter(IF runConn THEN selectionEffect(w, order, 1) ELSE w)
        /\ last' = Step("props", FALSE, FALSE, runConn)
        /\ gesture' = NoGesture
        /\ UNCHANGED <<internalSelection, zoomVars, wheels, panVars>>

\* the dblclick event of a double click; its two click events are Click steps
DoubleClick(target) ==
    LET r == DispatchDblClick(target)
    IN  /\ target \in ClickTargets
        /\ notes' = r.notes
        /\ EngineAfter(Working)
        /\ last' = Step("dblclick", FALSE, FALSE, FALSE)
        /\ gesture' = [kind |-> "dblclick", target |-> target]
        /\ UNCHANGED <<selVars, zoomVars, wheels, panVars>>

ClickStep == \E target \in ClickTargets, event \in PointerEvents : Click(target, event)

DoubleClickStep == \E target \in ClickTargets : DoubleClick(target)

SelectionPropsStep ==
    \E sn \in NodeSelections, sc \in ConnectionSelections, multi \in BOOLEAN :
       SelectionProps(sn, sc, multi)

\* the engine after mount and a first commit that ran every layout effect over
\* the declared lists
FirstCommit(ns, cs) ==
    LET w0 == [objs |-> <<>>, notes |-> <<>>, ops |-> NoOps, managed |-> {},
               endpoints |-> {}, emap |-> {}, cmap |-> EmptyMap, epAttr |-> EmptyMap,
               elAttr |-> EmptyMap, skipped |-> {}, selected |-> <<>>]
        attr == NodeIdsOf(ns)
        w1 == draggableEffect(NodeSync(w0, ns, FALSE, CommitDom(w0, ns, attr)), ns, FALSE)
        w2 == synchronizeEndpoints(w1, ns, CommitDom(w1, ns, attr))
    IN  ConnectionPass(w2, cs, CommitDom(w2, ns, attr))

\* the declared lists of the selection steps: none, two connections on two
\* pairs, two connections on one pair
SelectionConnLists ==
    {<<>>,
     <<FlowConnection("e1", <<RefA, RefB>>), FlowConnection("e2", <<RefB, RefA>>)>>,
     <<FlowConnection("e1", <<RefA, RefB>>), FlowConnection("e2", <<RefA, RefB>>)>>}

\* a mounted canvas showing nodes a and b and a declared connection list
InitSelection ==
    /\ nodes = {NodeA, NodeB}
    /\ connections \in SelectionConnLists
    /\ readonly = FALSE
    /\ \E w \in {FirstCommit(nodes, connections)} :
          /\ managed = w.managed
          /\ endpoints = w.endpoints
          /\ conns = Live(w.objs)
          /\ endpointMapRef = w.emap
          /\ connectionMapRef = Remap(w.cmap, w.objs)
          /\ endpointAttr = w.epAttr
          /\ elementAttr = w.elAttr
          /\ pending = w.skipped
          /\ ops = w.ops
    /\ nodeAttr = NodeIdsOf(nodes)
    /\ syncingRef = FALSE
    /\ notes = <<>>
    /\ last = Step("render", TRUE, TRUE, TRUE)
    /\ stable = 1
    /\ SelectionInit
    /\ ZoomInit(None)
    /\ PanInit
    /\ gesture = NoGesture

NextSelection == ClickStep \/ DoubleClickStep \/ SelectionPropsStep

SpecSelection == InitSelection /\ [][NextSelection]_vars

\* two clicks on node elements handled before the next commit: both handlers
\* read selectionRef.current as the last passive effect of useLatest left it,
\* and the state updaters they queue run in order on the state of the first
ClickBatch(first, firstEvent, second, secondEvent) ==
    LET g == [internal |-> internalSelection, notes |-> <<>>]
        r == handleNodeClick(handleNodeClick(g, first.id, firstEvent),
                             second.id, secondEvent)
        runConn == selectedConnections = None
        shown == [Working EXCEPT !.selected = OrElse(selectedConnections,
                                                     r.internal.connections)]
        w == IF runConn THEN ConnectionPass(shown, connections, SteadyDom) ELSE Working
    IN  /\ first \in ClickTargets
        /\ second \in ClickTargets
        /\ first.kind = "node"
        /\ second.kind = "node"
        /\ internalSelection' = r.internal
        /\ notes' = r.notes \o w.notes
        /\ \E order \in Orders(DOMAIN w.cmap) :
              EngineAfter(IF runConn THEN selectionEffect(w, order, 1) ELSE w)
        /\ last' = Step("click", FALSE, FALSE, runConn)
        /\ gesture' = [kind |-> "batch", first |-> first, second |-> second,
                       events |-> <<firstEvent, secondEvent>>, before |-> selection]
        /\ UNCHANGED <<selectedNodes, selectedConnections, allowMultiSelect, zoomVars, wheels,
                       panVars>>

\* the pointer events of the batched clicks: no key, or the shift key
BatchEvents == {e \in PointerEvents : ~e.metaKey /\ ~e.ctrlKey}

ClickBatchStep ==
    \E first \in ClickTargets, second \in ClickTargets,
       firstEvent \in BatchEvents, secondEvent \in BatchEvents :
       ClickBatch(first, firstEvent, second, secondEvent)

NextBatch == ClickBatchStep \/ SelectionPropsStep

SpecBatch == InitSelection /\ [][NextBatch]_vars

----------------------------------------------------------------------------
(* Steps of the pan/zoom controller. *)

\* how many consecutive zoomIn calls the model counts
MaxRun == 12

\* a call of the imperative handle, named with its argument
Call(kind, arg) == [kind |-> kind, arg |-> arg]

\* a call of the imperative handle or a wheel event g: the controller after it
Viewport(g, z, nextPan) ==
    /\ zoomState' = z.zoomState
    /\ zoomRef' = z.zoomRef
    /\ engineZoom' = z.engineZoom
    /\ pan' = nextPan
    /\ panRef' = nextPan
    /\ notes' = <<>>
    /\ last' = Step("viewport", FALSE, FALSE, FALSE)
    /\ gesture' = g
    /\ UNCHANGED <<engineVars, selVars, zoomProp, panVars>>

\* handle.setZoom(value)
SetZoom(value) ==
    Viewport(Call("setZoom", value), setZoomInternal(Zoomed, value), pan)
    /\ UNCHANGED wheels

\* handle.zoomIn(); the gesture counts the consecutive calls and keeps the zoom
\* the first of them started from
ZoomIn ==
    LET g == IF gesture.kind = "zoomIn"
             THEN [gesture EXCEPT !.n = Min(MaxRun, @ + 1)]
             ELSE [kind |-> "zoomIn", from |-> zoomRef, n |-> 1]
    IN  /\ Viewport(g, setZoomInternal(Zoomed, zoomRef + zoomStep), pan)
        /\ UNCHANGED wheels

\* handle.zoomOut()
ZoomOut ==
    Viewport(Call("zoomOut", zoomStep), setZoomInternal(Zoomed, zoomRef - zoomStep), pan)
    /\ UNCHANGED wheels

\* a reset of the zoom that leaves the pan where it is
ResetZoomKeepsPan ==
    Viewport(Call("resetZoom", UnitZoom), setZoomInternal(Zoomed, UnitZoom), pan)
    /\ UNCHANGED wheels

\* handle.resetZoom()
ResetZoom ==
    Viewport(Call("resetZoom", UnitZoom), setZoomInternal(Zoomed, UnitZoom),
             [x |-> 0, y |-> 0])
    /\ UNCHANGED wheels

\* a wheel event over the canvas
Wheel(event) ==
    LET r == handleWheel(event)
        zooms == event.ctrlKey \/ event.metaKey
        moves == zooms /\ r.pan # pan
    IN  /\ moves => wheels < MaxWheel
        /\ wheels' = IF moves THEN wheels + 1 ELSE wheels
        /\ Viewport([kind |-> "wheel", event |-> event, zoom |-> zoomRef, pan |-> panRef],
                    r.zoom, r.pan)

\* the embedder renders with another props.zoom: the zoom effect runs
ZoomInput(zp) ==
    /\ zp # zoomProp
    /\ zoomProp' = zp
    /\ \E z \in {IF zp = None THEN Zoomed ELSE setZoomInternal(Zoomed, zp[1])} :
          /\ zoomState' = z.zoomState
          /\ zoomRef' = z.zoomRef
          /\ engineZoom' = z.engineZoom
    /\ notes' = <<>>
    /\ last' = Step("viewport", FALSE, FALSE, FALSE)
    /\ gesture' = Call("zoomInput", zp)
    /\ UNCHANGED <<engineVars, selVars, pan, panRef, wheels, panVars>>

\* the embedder flips readonly: the passive effect replaces the instance
ReadonlyToggle == Render(nodes, connections, ~readonly, FALSE, FALSE)

SetZoomStep == \E value \in ZoomInputs : SetZoom(value)

WheelStep == \E event \in WheelEvents : Wheel(event)

\* wheel events with the pointer on the corner of the canvas
WheelAtOriginStep ==
    \E event \in {e \in WheelEvents : e.clientX = 0 /\ e.clientY = 0} : Wheel(event)

ZoomInputStep == \E zp \in {None} \cup {Some(v) : v \in ZoomInputs} : ZoomInput(zp)

\* a mounted canvas with one node, whatever props.zoom was at mount
InitZoom ==
    /\ nodes = {NodeB}
    /\ connections = <<>>
    /\ readonly = FALSE
    /\ managed = {}
    /\ endpoints = {}
    /\ conns = <<>>
    /\ endpointMapRef = {}
    /\ connectionMapRef = EmptyMap
    /\ nodeAttr = {}
    /\ endpointAttr = EmptyMap
    /\ elementAttr = EmptyMap
    /\ syncingRef = FALSE
    /\ notes = <<>>
    /\ ops = NoOps
    /\ last = Step("mount", FALSE, FALSE, FALSE)
    /\ pending = {}
    /\ stable = 0
    /\ SelectionInit
    /\ \E zp \in {None} \cup {Some(v) : v \in ZoomInputs} : ZoomInit(zp)
    /\ PanInit
    /\ gesture = NoGesture

NextZoom ==
    \/ SetZoomStep
    \/ ZoomIn
    \/ ZoomOut
    \/ ResetZoom
    \/ WheelAtOriginStep
    \/ ZoomInputStep
    \/ ReadonlyToggle

SpecZoom == InitZoom /\ [][NextZoom]_vars

\* zoom factors the handle calls reach and pan offsets a drag leaves
WheelZooms == {minZoom, UnitZoom, UnitZoom + 4 * zoomStep, maxZoom - zoomStep, maxZoom}
WheelPans == {[x |-> 0, y |-> 0], [x |-> -10 * Scale, y |-> (27 * Scale) \div 2]}

\* a mounted canvas the user has zoomed and panned
InitWheel ==
    /\ nodes = {NodeB}
    /\ connections = <<>>
    /\ readonly = FALSE
    /\ managed = {}
    /\ endpoints = {}
    /\ conns = <<>>
    /\ endpointMapRef = {}
    /\ connectionMapRef = EmptyMap
    /\ nodeAttr = {}
    /\ endpointAttr = EmptyMap
    /\ elementAttr = EmptyMap
    /\ syncingRef = FALSE
    /\ notes = <<>>
    /\ ops = NoOps
    /\ last = Step("mount", FALSE, FALSE, FALSE)
    /\ pending = {}
    /\ stable = 0
    /\ SelectionInit
    /\ zoomProp = None
    /\ zoomState \in WheelZooms
    /\ zoomRef = zoomState
    /\ engineZoom = zoomState
    /\ pan \in WheelPans
    /\ panRef = pan
    /\ wheels = 0
    /\ PanInit
    /\ gesture = NoGesture

NextWheel == WheelStep

SpecWheel == InitWheel /\ [][NextWheel]_vars

----------------------------------------------------------------------------
(* Steps of the drag-pan gesture.  drag follows the gesture as the user     *)
(* makes it: it starts with a primary-button press outside every node, port *)
(* and delete button and ends with the next release.                        *)

PanWorking == [panStartRef |-> panStartRef, listeners |-> listeners, pan |-> pan]

\* whether a press starts a drag gesture
StartsDrag(event) ==
    event.button = 0 /\ event.target.kind \notin {"node", "port", "deleteButton"}

\* a mouse button goes down over the canvas
MouseDown(event) ==
    LET r == handleCanvasMouseDown(PanWorking, event)
    IN  /\ mounted
        /\ StartsDrag(event) => drag.count < MaxDrag
        /\ panStartRef' = r.panStartRef
        /\ listeners' = r.listeners
        /\ drag' = IF StartsDrag(event)
                   THEN [active |-> TRUE,
                         start |-> [x |-> event.clientX, y |-> event.clientY],
                         origin |-> pan,
                         count |-> drag.count + 1]
                   ELSE drag
        /\ notes' = <<>>
        /\ last' = Step("pointer", FALSE, FALSE, FALSE)
        /\ gesture' = [kind |-> "mousedown", event |-> event, pan |-> pan]
        /\ UNCHANGED <<engineVars, selVars, zoomVars, wheels, mounted>>

\* the pointer moves anywhere in the window; the render that follows setPan
\* publishes the pan to panRef
MouseMove(event) ==
    LET r == DeliverFrom(PanWorking, listeners, 1, "mousemove", event)
    IN  /\ panStartRef' = r.panStartRef
        /\ listeners' = r.listeners
        /\ pan' = r.pan
        /\ panRef' = IF mounted THEN r.pan ELSE panRef
        /\ notes' = <<>>
        /\ last' = Step("pointer", FALSE, FALSE, FALSE)
        /\ gesture' = [kind |-> "mousemove", event |-> event, pan |-> pan]
        /\ UNCHANGED <<engineVars, selVars, zoomProp, zoomState, zoomRef, engineZoom, wheels,
                       mounted, drag>>

\* a mouse button is released anywhere in the window
MouseUp(event) ==
    LET r == DeliverFrom(PanWorking, listeners, 1, "mouseup", event)
    IN  /\ panStartRef' = r.panStartRef
        /\ listeners' = r.listeners
        /\ drag' = [drag EXCEPT !.active = FALSE]
        /\ notes' = <<>>
        /\ last' = Step("pointer", FALSE, FALSE, FALSE)
        /\ gesture' = [kind |-> "mouseup", event |-> event, pan |-> pan]
        /\ UNCHANGED <<engineVars, selVars, zoomVars, wheels, mounted>>

\* the embedder unmounts the canvas: the cleanup of the teardown effect runs
Unmount ==
    /\ mounted
    /\ mounted' = FALSE
    /\ listeners' = removePanListeners(listeners)
    /\ notes' = <<>>
    /\ last' = Step("unmount", FALSE, FALSE, FALSE)
    /\ gesture' = [kind |-> "unmount", pan |-> pan]
    /\ UNCHANGED <<engineVars, selVars, zoomVars, wheels, panStartRef, drag>>

\* handle.resetZoom() while the canvas is mounted
ResetView == mounted /\ ResetZoom

MouseDownStep == \E event \in MouseEvents : MouseDown(event)

MouseMoveStep == \E event \in WindowEvents : MouseMove(event)

MouseUpStep == \E event \in WindowEvents : MouseUp(event)

NextPan ==
    \/ MouseDownStep
    \/ MouseMoveStep
    \/ MouseUpStep
    \/ ResetView
    \/ Unmount

\* a mounted canvas with no zoom input
InitPan == InitZoom /\ zoomProp = None

SpecPan == InitPan /\ [][NextPan]_vars

----------------------------------------------------------------------------
(* Steps of focusNode. *)

\* identities the embedder passes to focusNode: the declared ones and strangers
FocusIds == NodeIds \cup {"zz"}

\* handle.focusNode(nodeId) on a mounted canvas, with the render that follows
\* setPan; the gesture keeps the pan found
FocusNode(nodeId, rect) ==
    /\ mounted
    /\ \E nextPan \in {focusNode(nodeId, rect)} :
          /\ pan' = nextPan
          /\ panRef' = nextPan
    /\ notes' = <<>>
    /\ last' = Step("viewport", FALSE, FALSE, FALSE)
    /\ gesture' = [kind |-> "focusNode", id |-> nodeId, rect |-> rect, pan |-> pan,
                   zoom |-> zoomRef]
    /\ UNCHANGED <<engineVars, selVars, zoomProp, zoomState, zoomRef, engineZoom, wheels,
                   panVars>>

FocusNodeStep == \E nodeId \in FocusIds, rect \in NodeRects : FocusNode(nodeId, rect)

\* a mounted canvas at some zoom and pan, with one or two declared nodes
InitFocus ==
    /\ nodes \in {{NodeB}, {NodeA, NodeB}}
    /\ connections = <<>>
    /\ readonly = FALSE
    /\ managed = {}
    /\ endpoints = {}
    /\ conns = <<>>
    /\ endpointMapRef = {}
    /\ connectionMapRef = EmptyMap
    /\ nodeAttr = {}
    /\ endpointAttr = EmptyMap
    /\ elementAttr = EmptyMap
    /\ syncingRef = FALSE
    /\ notes = <<>>
    /\ ops = NoOps
    /\ last = Step("mount", FALSE, FALSE, FALSE)
    /\ pending = {}
    /\ stable = 0
    /\ SelectionInit
    /\ zoomProp = None
    /\ zoomState \in WheelZooms
    /\ zoomRef = zoomState
    /\ engineZoom = zoomState
    /\ pan \in WheelPans
    /\ panRef = pan
    /\ wheels = 0
    /\ PanInit
    /\ gesture = NoGesture

NextFocus ==
    \/ FocusNodeStep
    \/ ZoomIn
    \/ ZoomOut
    \/ ResetZoom

SpecFocus == InitFocus /\ [][NextFocus]_vars

----------------------------------------------------------------------------
(* What the claims speak about. *)

\* the endpoint pair a live connection joins, and the pair a declared one names
PairOf(c) == <<c.src.uuid, c.tgt.uuid>>
ResolvedPair(data) ==
    <<getEndpointUuid(data.source.nodeId, data.source.portId),
      getEndpointUuid(data.target.nodeId, data.target.portId)>>

\* the last step was a commit whose connection layout effect ran
AfterConnectionPass == last.kind = "render" /\ last.conn

\* the live connections tagged with an identity
Tagged(cs, id) == {j \in DOMAIN cs : cs[j].tag = id}

\* the live connections that join a pair
Joining(cs, pr) == {j \in DOMAIN cs : PairOf(cs[j]) = pr}

\* the declared connections whose endpoints are both in the endpoint map
ResolvableIn(list, emap) ==
    {i \in DOMAIN list : ResolvedPair(list[i])[1] \in emap /\ ResolvedPair(list[i])[2] \in emap}

LinkNotes(ns) == {k \in DOMAIN ns : ns[k].type \in {"onLinkCreate", "onLinkDetached"}}

(* C1: Convergence.  After a connection pass the live tagged connections are
   exactly the declared connections whose endpoints both exist: each such
   identity tags exactly one live connection, which joins the resolved pair,
   and no live connection carries any other tag. *)
C1_Convergence ==
    AfterConnectionPass =>
        /\ \A i \in ResolvableIn(connections, endpointMapRef) :
              /\ Cardinality(Tagged(conns, connections[i].id)) = 1
              /\ \A j \in Tagged(conns, connections[i].id) :
                    PairOf(conns[j]) = ResolvedPair(connections[i])
        /\ \A j \in DOMAIN conns :
              conns[j].tag # Undefined =>
                 \E i \in ResolvableIn(connections, endpointMapRef) :
                    connections[i].id = conns[j].tag

\* the declared connections of a list that name a pair
Naming(list, pr) == {i \in DOMAIN list : ResolvedPair(list[i]) = pr}

(* C2: No duplication under race.  When a commit runs the connection pass and,
   before it, a live untagged connection joins the pair (A,B) whose endpoints
   the pass resolves, and the declared list names that pair once, under an
   identity that tags no live connection, then the pass does not call connect
   for it and ends with exactly one live connection joining (A,B), tagged with
   that identity. *)
C2_NoDuplicationUnderRace ==
    [][ (last'.kind = "render" /\ last'.conn) =>
          \A i \in ResolvableIn(connections', endpointMapRef') :
             LET data == connections'[i]
                 pr == ResolvedPair(data)
             IN  ( /\ \E j \in Joining(conns, pr) : conns[j].tag = Undefined
                   /\ Tagged(conns, data.id) = {}
                   /\ Naming(connections', pr) = {i} )
                 => /\ data.id \notin ops'.connects
                    /\ Cardinality(Joining(conns', pr)) = 1
                    /\ \A j \in Joining(conns', pr) : conns'[j].tag = data.id
      ]_vars

(* C3: Reconciliation-driven engine mutations never notify.  A commit, whatever
   its layout effects create, re-identify or delete, and whatever connections
   vanish with the endpoints it removes, calls neither onLinkCreate nor
   onLinkDetached. *)
C3_ReconcileNeverNotifies ==
    last.kind = "render" => LinkNotes(notes) = {}

\* a commit that removed the default port of a node that stays declared, and
\* with it a connection, without running the connection pass
C3_Witness ==
    /\ last.kind = "render"
    /\ ~last.conn
    /\ "a:default" \in ops.epDeleted
    /\ "a" \in NodeIdsOf(nodes)
    /\ ops.connDeleted > 0

(* C4: After a connection pass every live connection corresponds to a declared
   connection: it carries the identity of a declared connection and joins the
   pair that connection names; tagged or untagged, nothing else is left. *)
C4_NoUnmatchedConnection ==
    AfterConnectionPass =>
        \A j \in DOMAIN conns :
           \E i \in DOMAIN connections :
              /\ conns[j].tag = connections[i].id
              /\ PairOf(conns[j]) = ResolvedPair(connections[i])

(* C5: Idempotence.  A second run of the node, endpoint and connection effects
   over the same declared lists, with no gesture in between, makes no engine
   mutation (no endpoint or connection created or deleted, no connect call, no
   handler bound, no overlay added) and delivers no notification. *)
C5_Idempotence ==
    stable >= 2 => ops = NoOps /\ notes = <<>>

(* C6: Matching precedence.  A connection tagged with another identity, or
   already claimed in the pass, is never re-identified, so after a connection
   pass two declared connections that name the same resolvable pair under
   different identities each have a live connection of their own. *)
C6_OwnConnectionEach ==
    AfterConnectionPass =>
        \A i, k \in ResolvableIn(connections, endpointMapRef) :
           (i # k /\ ResolvedPair(connections[i]) = ResolvedPair(connections[k])) =>
              \E j, l \in Joining(conns, ResolvedPair(connections[i])) :
                 /\ j # l
                 /\ conns[j].tag = connections[i].id
                 /\ conns[l].tag = connections[k].id

(* C7: Endpoint change under a stable identity.  When a connection pass finds a
   live connection tagged with a declared identity whose resolved pair differs
   from the pair that connection joins, it ends with exactly one live
   connection tagged with that identity, joining the resolved pair, and no
   detachment notification. *)
C7_EndpointChange ==
    [][ (last'.kind = "render" /\ last'.conn) =>
          \A i \in ResolvableIn(connections', endpointMapRef') :
             LET data == connections'[i]
                 pr == ResolvedPair(data)
             IN  (\E j \in Tagged(conns, data.id) : PairOf(conns[j]) # pr)
                 => /\ Cardinality(Tagged(conns', data.id)) = 1
                    /\ \A j \in Tagged(conns', data.id) : PairOf(conns'[j]) = pr
                    /\ LinkNotes(notes') = {}
      ]_vars

(* C8: Vetoed creation.  A connection drawn by the user reaches onLinkCreate
   once and nothing else is notified; when the handler returns false the
   connection is deleted again and the live connections are what they were;
   when it returns true or nothing the new connection stays live, untagged,
   after the others. *)
C8_VetoedCreation ==
    [][ last'.kind = "connect" =>
          /\ Len(notes') = 1
          /\ notes'[1].type = "onLinkCreate"
          /\ notes'[1].returned = "false" => conns' = conns
          /\ notes'[1].returned # "false" =>
                /\ Len(conns') = Len(conns) + 1
                /\ SubSeq(conns', 1, Len(conns)) = conns
                /\ conns'[Len(conns')].tag = Undefined
                /\ conns'[Len(conns')].alive
                /\ ResolvedPair(notes'[1].draft) = PairOf(conns'[Len(conns')])
      ]_vars

\* a drawn connection that the embedder vetoed
C8_Witness ==
    /\ last.kind = "connect"
    /\ Len(notes) = 1
    /\ notes[1].returned = "false"
    /\ ops.connDeleted = 1

(* C9: Unresolvable endpoints.  For a declared connection one of whose endpoint
   identities is absent from the endpoint map, the connection pass calls
   connect for nothing under its identity, leaves no live connection tagged
   with it, records it as skipped and notifies nobody. *)
C9_UnresolvableSkipped ==
    AfterConnectionPass =>
        \A i \in DOMAIN connections \ ResolvableIn(connections, endpointMapRef) :
           /\ connections[i].id \notin ops.connects
           /\ Tagged(conns, connections[i].id) = {}
           /\ connections[i].id \in pending
           /\ notes = <<>>

\* a connection pass over a list with a connection whose source endpoint exists
\* and whose target endpoint does not
C9_Witness ==
    /\ AfterConnectionPass
    /\ \E i \in DOMAIN connections :
          /\ ResolvedPair(connections[i])[1] \in endpointMapRef
          /\ ResolvedPair(connections[i])[2] \notin endpointMapRef
          /\ connections[i].id \in pending

(* C10: Automatic retry.  After any commit, a declared connection that the last
   connection pass skipped for a missing endpoint, and whose endpoints both
   exist now, has a live connection tagged with its identity. *)
C10_AutomaticRetry ==
    last.kind = "render" =>
        \A i \in ResolvableIn(connections, endpointMapRef) :
           connections[i].id \in pending => Tagged(conns, connections[i].id) # {}

----------------------------------------------------------------------------
(* Selection claims.  They are read on the state a click leaves: gesture    *)
(* holds the target, the pointer event and the selection rendered before,   *)
(* notes the notifications of the click, selection the selection rendered   *)
(* after it.                                                                *)

Modified(event) == event.metaKey \/ event.ctrlKey \/ event.shiftKey

\* the last step was a click on a target of one of the kinds
Clicked(kinds) == gesture.kind = "click" /\ gesture.target.kind \in kinds

\* the selections the selection-changed notifications of the last step carried
SelectionNotes ==
    LET ns == SelectSeq(notes, LAMBDA n : n.type = "onSelectionChange")
    IN  [k \in DOMAIN ns |-> ns[k].selection]

\* what is shown when the manager asks for the sets ns and cs: a set the
\* embedder supplies shows the supplied value
Shown(ns, cs) ==
    [nodes |-> OrElse(selectedNodes, ns), connections |-> OrElse(selectedConnections, cs)]

(* C11: Selection exclusivity.  After a click on node N with no modifier key
   held, whatever was selected before, the selection shown is nodes [N] and no
   connection (a set the embedder supplies shows the supplied value), and the
   one selection-changed notification of the click carries that selection. *)
C11_SelectionExclusivity ==
    (Clicked({"node"}) /\ ~Modified(gesture.event)) =>
        /\ selection = Shown(<<gesture.target.id>>, <<>>)
        /\ SelectionNotes = <<Shown(<<gesture.target.id>>, <<>>)>>

\* an unmodified click on node a while b and a were selected, both sets
\* owned by the manager
C11_Witness ==
    /\ Clicked({"node"})
    /\ ~Modified(gesture.event)
    /\ gesture.target.id = "a"
    /\ gesture.before.nodes = <<"b", "a">>
    /\ selectedNodes = None
    /\ selectedConnections = None
    /\ selection = [nodes |-> <<"a">>, connections |-> <<>>]

\* the last step was a click on the connector of a live connection the
\* component tagged with a declared identity
ClickedConnection == Clicked({"connection"}) /\ gesture.target.id # Undefined

\* the canvas-background-click notifications of the last step
CanvasClickNotes == SelectSeq(notes, LAMBDA n : n.type = "onCanvasClick")

(* C12: Selection toggle.  With multi-select enabled and a modifier key held,
   a click on X of kind K (node or connection), K's set owned by the manager,
   leaves K's set as it was with X removed if it was a member and added
   otherwise, and leaves the other kind's set as it was. *)
C12_SelectionToggle ==
    LET x == gesture.target.id
        before == gesture.before
    IN  /\ (Clicked({"node"}) /\ allowMultiSelect /\ Modified(gesture.event)
              /\ selectedNodes = None) =>
                /\ selection.nodes = ToggleIn(before.nodes, x)
                /\ selection.connections = before.connections
        /\ (ClickedConnection /\ allowMultiSelect /\ Modified(gesture.event)
              /\ selectedConnections = None) =>
                /\ selection.connections = ToggleIn(before.connections, x)
                /\ selection.nodes = before.nodes

(* C13: a click on a live connection X with no modifier key held leaves the
   selection with no node and the connections [X] (a set the embedder supplies
   shows the supplied value), and the click is not handled as a click on the
   canvas background as well. *)
C13_ConnectionClickSelects ==
    (ClickedConnection /\ ~Modified(gesture.event)) =>
        /\ selection = Shown(<<>>, <<gesture.target.id>>)
        /\ CanvasClickNotes = <<>>

\* the selection a click on target asks for when before is shown: toggle or
\* replace for a node (a port is inside its node) or a connection, both sets
\* empty for the background, no change for a connection's delete button
Requested(target, event, before) ==
    LET multi == allowMultiSelect /\ Modified(event)
    IN  CASE target.kind \in {"node", "port"} ->
                [nodes |-> IF multi THEN ToggleIn(before.nodes, target.id) ELSE <<target.id>>,
                 connections |-> IF multi THEN before.connections ELSE <<>>]
          [] target.kind = "connection" /\ target.id # Undefined ->
                [nodes |-> IF multi THEN before.nodes ELSE <<>>,
                 connections |-> IF multi THEN ToggleIn(before.connections, target.id)
                                 ELSE <<target.id>>]
          [] target.kind = "background" -> [nodes |-> <<>>, connections |-> <<>>]
          [] OTHER -> before

(* C14: Controlled selection sets.  In every click step (on a node, a
   connection, the background), for each of the two sets: when the embedder
   supplies the set, the click changes neither the value shown for it nor the
   value stored for it, and every selection-changed notification of the click
   carries the supplied value for it; when the embedder supplies only the
   other set, this set is stored and shown as the click asks. *)
C14_ControlledSets ==
    [][gesture'.kind = "click" =>
        LET asked == Requested(gesture'.target, gesture'.event, selection)
        IN  /\ selectedNodes # None =>
                /\ selection'.nodes = selection.nodes
                /\ internalSelection'.nodes = internalSelection.nodes
                /\ \A k \in DOMAIN SelectionNotes' :
                       SelectionNotes'[k].nodes = selectedNodes[1]
            /\ selectedConnections # None =>
                /\ selection'.connections = selection.connections
                /\ internalSelection'.connections = internalSelection.connections
                /\ \A k \in DOMAIN SelectionNotes' :
                       SelectionNotes'[k].connections = selectedConnections[1]
            /\ (selectedNodes = None /\ selectedConnections # None) =>
                /\ internalSelection'.nodes = asked.nodes
                /\ selection'.nodes = asked.nodes
            /\ (selectedConnections = None /\ selectedNodes # None) =>
                /\ internalSelection'.connections = asked.connections
                /\ selection'.connections = asked.connections
    ]_vars

(* C15: a click on the canvas background, whatever the modifier keys and the
   multi-select flag, leaves both sets empty (a set the embedder supplies
   shows the supplied value), reports that selection once and fires the
   canvas-background-click notification once; a click inside a node, a port
   or a connection's delete button fires no canvas-background-click
   notification and leaves the selection to the target's own handler: what
   the node click asks for, unchanged and unreported for the delete button. *)
C15_BackgroundClick ==
    /\ Clicked({"background"}) =>
          /\ selection = Shown(<<>>, <<>>)
          /\ SelectionNotes = <<Shown(<<>>, <<>>)>>
          /\ Len(CanvasClickNotes) = 1
    /\ Clicked({"node", "port", "deleteButton"}) =>
          LET asked == Requested(gesture.target, gesture.event, gesture.before)
          IN  /\ CanvasClickNotes = <<>>
              /\ selection = Shown(asked.nodes, asked.connections)
              /\ gesture.target.kind = "deleteButton" => SelectionNotes = <<>>

\* a background click with shift held and multi-select enabled empties a
\* selection of two nodes the manager owns
C15_Witness ==
    /\ Clicked({"background"})
    /\ gesture.event.shiftKey
    /\ allowMultiSelect
    /\ selectedNodes = None
    /\ selectedConnections = None
    /\ gesture.before.nodes = <<"a", "b">>
    /\ selection = [nodes |-> <<>>, connections |-> <<>>]
    /\ Len(CanvasClickNotes) = 1

(* C16: with multi-select disabled, a click on X of kind K (node or
   connection) with a modifier key held behaves as a click with none: K's set
   is [X] and the other kind's set is empty (a set the embedder supplies shows
   the supplied value), so that the sets the manager owns never hold more than
   one identity in total after it. *)
C16_MultiSelectDisabled ==
    (gesture.kind = "click" /\ ~allowMultiSelect /\ Modified(gesture.event)) =>
        /\ Clicked({"node"}) => selection = Shown(<<gesture.target.id>>, <<>>)
        /\ ClickedConnection => selection = Shown(<<>>, <<gesture.target.id>>)

(* C17: every selection transition (a click on a node, on a live connection
   or on the background) emits exactly one selection-changed notification,
   and the pair it carries is the selection shown after the transition. *)
C17_OneNotification ==
    (Clicked({"node", "background"}) \/ ClickedConnection) =>
        SelectionNotes = <<selection>>

----------------------------------------------------------------------------
(* Zoom claims.  gesture holds the operation of the last step: a run of      *)
(* consecutive zoomIn calls with the zoom it started from, or a wheel event  *)
(* with the zoom and the pan it found.                                       *)

\* handle.getZoom()
getZoom == zoomRef

(* C18: Zoom bounds.  After any sequence of setZoom, zoomIn, zoomOut,
   resetZoom, wheel steps and zoom-input changes, getZoom() lies between
   minZoom and maxZoom; the clamp acts only past a bound: n consecutive
   zoomIn calls from 1.0 give 1.0 + n * zoomStep up to the ninth, the tenth
   gives exactly maxZoom = 2.0 and every further one leaves it there. *)
C18_ZoomBounds ==
    /\ minZoom <= getZoom
    /\ getZoom <= maxZoom
    /\ (gesture.kind = "zoomIn" /\ gesture.from = UnitZoom) =>
          getZoom = IF gesture.n < 10 THEN UnitZoom + gesture.n * zoomStep ELSE maxZoom

\* the eleventh consecutive zoomIn from 1.0 leaves the zoom at 2.0
C18_Witness ==
    /\ gesture.kind = "zoomIn"
    /\ gesture.from = UnitZoom
    /\ gesture.n = 11
    /\ getZoom = maxZoom
    /\ getZoom = 2 * UnitZoom

(* C19: Engine zoom consistency.  Whenever an engine instance exists (it does
   in every state after mount), its zoom factor equals the controller's
   clamped zoom: after every setZoom, zoomIn, zoomOut, resetZoom, wheel step
   and zoom-input change, for the instance created at mount with an initial
   zoom input, and for the instance that replaces it when readonly changes. *)
C19_EngineZoomConsistency == engineZoom = getZoom

\* the graph-space point under viewport pixel p for a pan offset and a zoom
GraphPoint(p, offset, z) == [x |-> Over(p.x - offset.x, z), y |-> Over(p.y - offset.y, z)]

\* the pointer of the wheel event of the last step
Pointer == [x |-> gesture.event.clientX, y |-> gesture.event.clientY]

\* the last step was a wheel event, with the zoom modifier held or not
Wheeled(held) ==
    /\ gesture.kind = "wheel"
    /\ (gesture.event.ctrlKey \/ gesture.event.metaKey) = held

\* the rounding a graph coordinate can pick up in a wheel step: half a unit in
\* the product graphX * nextZoom, divided by a zoom of at least minZoom
AnchorTolerance == Scale \div (2 * minZoom)

Distance(a, b) == IF a < b THEN b - a ELSE a - b

\* a wheel event without the zoom modifier changes neither zoom nor pan
WheelIgnored ==
    Wheeled(FALSE) =>
        /\ getZoom = gesture.zoom
        /\ zoomState = gesture.zoom
        /\ pan = gesture.pan
        /\ panRef = gesture.pan

(* C20 as stated: Anchor-preserving zoom.  After a wheel step with the zoom
   modifier held, the graph-space point under the pointer computed with the
   pan and zoom after the step equals the one computed with the pan and zoom
   before it, also when the zoom was clamped; a wheel event without the
   modifier changes neither zoom nor pan. *)
C20_AnchorExact ==
    /\ Wheeled(TRUE) =>
          GraphPoint(Pointer, pan, getZoom) = GraphPoint(Pointer, gesture.pan, gesture.zoom)
    /\ WheelIgnored

(* C20 amended: after a wheel step with the zoom modifier held, the
   graph-space point under the pointer computed with the pan and zoom after
   the step equals the one computed with the pan and zoom before it to within
   the rounding of the arithmetic, also when the zoom was clamped; a wheel
   event without the modifier changes neither zoom nor pan. *)
C20_AnchorWithinRounding ==
    /\ Wheeled(TRUE) =>
          LET after == GraphPoint(Pointer, pan, getZoom)
              before == GraphPoint(Pointer, gesture.pan, gesture.zoom)
          IN  /\ Distance(after.x, before.x) <= AnchorTolerance
              /\ Distance(after.y, before.y) <= AnchorTolerance
    /\ WheelIgnored

\* a wheel step with ctrl held, the pointer away from the origin, that zooms
\* in from 1.0 over a panned canvas and moves the pan
C20_Witness ==
    /\ Wheeled(TRUE)
    /\ Pointer.x # 0
    /\ gesture.pan.x # 0
    /\ gesture.zoom = UnitZoom
    /\ getZoom = UnitZoom + zoomStep
    /\ pan # gesture.pan

----------------------------------------------------------------------------
(* Drag-pan claims.  drag is the gesture as the user makes it; gesture      *)
(* holds the last pointer event with the pan it found.                      *)

\* the last step was a pointer event of the kind
Pointed(kind) == gesture.kind = kind

\* the pan a drag gives: the pan at its start plus the pointer's way since
DraggedPan(event) ==
    [x |-> drag.origin.x + (event.clientX - drag.start.x),
     y |-> drag.origin.y + (event.clientY - drag.start.y)]

\* how many listeners the window holds for the type
Registered(type) == Cardinality({i \in DOMAIN listeners : listeners[i] = type})

(* C21: Drag-pan gesture.  While the canvas is mounted the component tracks a
   gesture exactly from a primary-button press outside every node, port and
   connection-delete button to the next release, with the pointer position
   and the pan of that press; a press changes no pan; a pointer movement
   during a gesture leaves pan = pan at gesture start + (pointer - pointer at
   gesture start), and a movement outside a gesture (after the release, or
   after a press that started none) leaves the pan unchanged. *)
C21_DragPan ==
    mounted =>
        /\ (panStartRef # None) = drag.active
        /\ drag.active =>
              panStartRef = Some([x |-> drag.start.x, y |-> drag.start.y,
                                  originX |-> drag.origin.x, originY |-> drag.origin.y])
        /\ Pointed("mousedown") => pan = gesture.pan
        /\ Pointed("mousemove") =>
              pan = IF drag.active THEN DraggedPan(gesture.event) ELSE gesture.pan

\* a movement in the second drag of a canvas the first drag has panned
C21_Witness ==
    /\ mounted
    /\ Pointed("mousemove")
    /\ drag.active
    /\ drag.count = 2
    /\ drag.origin # [x |-> 0, y |-> 0]
    /\ drag.start # [x |-> 0, y |-> 0]
    /\ pan # drag.origin
    /\ pan = DraggedPan(gesture.event)

(* C22: No pan gesture outlives the component.  The window holds the
   component's move and up listeners exactly while the canvas is mounted and
   a gesture is under way (from a gesture-starting press to the next
   release), each at most once however often the press repeats without a
   release; after teardown it holds none, and a pointer movement then leaves
   the pan unchanged. *)
C22_NoGestureOutlives ==
    /\ Registered("mousemove") <= 1
    /\ Registered("mouseup") <= 1
    /\ (Registered("mousemove") = 1) = (mounted /\ drag.active)
    /\ (Registered("mouseup") = 1) = (mounted /\ drag.active)
    /\ ~mounted =>
          /\ listeners = <<>>
          /\ Pointed("mousemove") => pan = gesture.pan

\* the canvas was unmounted in the middle of a second drag and the pointer
\* moved on
C22_Witness ==
    /\ ~mounted
    /\ drag.active
    /\ drag.count = 2
    /\ Pointed("mousemove")
    /\ [x |-> gesture.event.clientX, y |-> gesture.event.clientY] # drag.start
    /\ listeners = <<>>
    /\ pan = gesture.pan

----------------------------------------------------------------------------
(* focusNode claims.  gesture holds the identity and the bounding rectangle  *)
(* of the last focusNode call with the pan and zoom it found.                *)

\* the last step was focusNode for a declared node with a registered element
Focused(known) ==
    /\ gesture.kind = "focusNode"
    /\ (gesture.id \in NodeIdsOf(nodes) /\ gesture.id \in nodeRefs) = known

\* how far the centre of the focused node, pan + position * zoom + half of the
\* rendered size, lies from the centre of the viewport, on each axis, in exact
\* arithmetic and scaled by 2 * Scale
CenterOffset ==
    LET node == CHOOSE n \in nodes : n.id = gesture.id
    IN  [x |-> 2 * Scale * pan.x + 2 * node.position.x * zoomRef
                 + Scale * gesture.rect.width - Scale * CanvasRect.width,
         y |-> 2 * Scale * pan.y + 2 * node.position.y * zoomRef
                 + Scale * gesture.rect.height - Scale * CanvasRect.height]

(* C23 as stated: after focusNode(id) for a declared, mounted node, the
   node's centre in viewport pixels, pan + position * zoom + half of its
   rendered size, equals the centre of the viewport, and the zoom is
   unchanged. *)
C23_FocusExact ==
    Focused(TRUE) =>
        /\ CenterOffset = [x |-> 0, y |-> 0]
        /\ getZoom = gesture.zoom
        /\ zoomState = gesture.zoom

(* C23 amended: after focusNode(id) for a declared, mounted node, the node's
   centre in viewport pixels, pan + position * zoom + half of its rendered
   size, equals the centre of the viewport to within the rounding of the
   arithmetic, and the zoom is unchanged. *)
C23_FocusWithinRounding ==
    Focused(TRUE) =>
        /\ Distance(CenterOffset.x, 0) <= 2 * Scale * FocusTolerance
        /\ Distance(CenterOffset.y, 0) <= 2 * Scale * FocusTolerance
        /\ getZoom = gesture.zoom
        /\ zoomState = gesture.zoom

\* focusNode moved the pan of a canvas zoomed to 1.4 onto node a
C23_Witness ==
    /\ Focused(TRUE)
    /\ gesture.id = "a"
    /\ getZoom = UnitZoom + 4 * zoomStep
    /\ pan # gesture.pan
    /\ pan.x + Times(PositionA.x, getZoom) + gesture.rect.width \div 2
         \in (CanvasRect.width \div 2 - 1)..(CanvasRect.width \div 2 + 1)

(* C24: Stale handle invocation.  focusNode(id) for an identity that is not
   in the declared node list, or whose element is not registered, changes
   nothing: pan, zoom, selection and engine state stay as they were and no
   notification is delivered. *)
C24_StaleFocusNode ==
    [][(gesture'.kind = "focusNode"
          /\ (gesture'.id \notin NodeIdsOf(nodes) \/ gesture'.id \notin nodeRefs)) =>
            /\ UNCHANGED <<pan, panRef, zoomVars, selVars, engineVars, panVars>>
            /\ notes' = <<>>
    ]_vars

\* focusNode for node a, which the panned canvas does not declare
C24_Witness ==
    /\ Focused(FALSE)
    /\ gesture.id = "a"
    /\ nodes = {NodeB}
    /\ pan = gesture.pan
    /\ pan # [x |-> 0, y |-> 0]
    /\ notes = <<>>

(* C25: resetZoom() leaves the pan at the origin (0, 0) and the zoom at 1
   whatever the viewport was; zoomIn() adds exactly zoomStep to the zoom and
   zoomOut() subtracts exactly zoomStep whenever the result stays within
   [minZoom, maxZoom], and neither changes the pan. *)
C25_HandleSteps ==
    [][/\ ResetZoom =>
            /\ pan' = [x |-> 0, y |-> 0]
            /\ panRef' = [x |-> 0, y |-> 0]
            /\ getZoom' = UnitZoom
            /\ zoomState' = UnitZoom
       /\ (ZoomIn /\ getZoom + zoomStep <= maxZoom) =>
            /\ getZoom' = getZoom + zoomStep
            /\ zoomState' = getZoom + zoomStep
            /\ pan' = pan
            /\ panRef' = panRef
       /\ (ZoomOut /\ getZoom - zoomStep >= minZoom) =>
            /\ getZoom' = getZoom - zoomStep
            /\ zoomState' = getZoom - zoomStep
            /\ pan' = pan
            /\ panRef' = panRef
    ]_vars

\* zoomIn on a panned canvas at zoom 1.4 left the zoom at 1.5 and the pan
\* where it was
C25_Witness ==
    /\ gesture.kind = "zoomIn"
    /\ gesture.n = 1
    /\ gesture.from = UnitZoom + 4 * zoomStep
    /\ getZoom = UnitZoom + 5 * zoomStep
    /\ pan = [x |-> -10 * Scale, y |-> (27 * Scale) \div 2]

----------------------------------------------------------------------------
(* Endpoint identities: getEndpointUuid applied to pairs of identity strings. *)

\* non-empty identity strings an embedder may choose; TypeScript's string type
\* allows any character, the separator included
IdStrings == {"a", "b", "a:b"}
PortStrings == {Undefined, "p", "b:p", DEFAULT_PORT_ID}

\* portId ?? DEFAULT_PORT_ID
EffectivePort(portId) == IF portId = Undefined THEN DEFAULT_PORT_ID ELSE portId

\* the identities of two (node, port) pairs, as the hook computes them
EndpointUuid(n1, p1, n2, p2) ==
    /\ gesture' = [kind |-> "uuid",
                   first |-> <<n1, EffectivePort(p1)>>,
                   second |-> <<n2, EffectivePort(p2)>>,
                   uuids |-> <<getEndpointUuid(n1, p1), getEndpointUuid(n2, p2)>>]
    /\ UNCHANGED <<engineVars, notes, last, selVars, zoomVars, wheels, panVars>>

EndpointUuidStep ==
    \E n1 \in IdStrings, n2 \in IdStrings, p1 \in PortStrings, p2 \in PortStrings :
        EndpointUuid(n1, p1, n2, p2)

NextUuid == EndpointUuidStep

SpecUuid == Init /\ [][NextUuid]_vars

(* C26: the endpoint identity is injective in (nodeId, portId), an omitted
   portId standing for the default port: two pairs that differ have different
   identities, whatever non-empty strings the identities are. *)
C26_UuidInjective ==
    (gesture.kind = "uuid" /\ gesture.first # gesture.second)
        => gesture.uuids[1] # gesture.uuids[2]

----------------------------------------------------------------------------
(* Commits over node lists whose positions, drag flags, port anchors and     *)
(* port modes change from one render to the next.                            *)

PositionA2 == [x |-> 4150, y |-> 2500]

\* node a moved and not draggable, node a with port p as a target anchored at
\* the top, node a with port p as a source, node b not draggable
NodeAd == FlowNode("a", {}, PositionA2, TRUE)
NodeApt == FlowNode("a", {NodePort("p", "Top", "target")}, PositionA, FALSE)
NodeAps == FlowNode("a", {NodePort("p", Undefined, "source")}, PositionA2, FALSE)
NodeBd == FlowNode("b", {}, PositionB, TRUE)

AttrNodeLists ==
    {{NodeB}, {NodeBd}, {NodeA, NodeB}, {NodeAd, NodeB}, {NodeAp, NodeB}, {NodeApt, NodeB},
     {NodeAps, NodeBd}}

AttrConnLists ==
    {<<>>, <<FlowConnection("e1", <<RefA, RefB>>)>>, <<FlowConnection("e1", <<RefAp, RefB>>)>>}

\* the state after mount, readonly as the embedder set it
InitNodes ==
    /\ nodes \in AttrNodeLists
    /\ connections \in AttrConnLists
    /\ readonly \in BOOLEAN
    /\ managed = {}
    /\ endpoints = {}
    /\ conns = <<>>
    /\ endpointMapRef = {}
    /\ connectionMapRef = EmptyMap
    /\ nodeAttr = {}
    /\ endpointAttr = EmptyMap
    /\ elementAttr = EmptyMap
    /\ syncingRef = FALSE
    /\ notes = <<>>
    /\ ops = NoOps
    /\ last = Step("mount", FALSE, FALSE, FALSE)
    /\ pending = {}
    /\ stable = 0
    /\ SelectionInit
    /\ ZoomInit(None)
    /\ PanInit
    /\ gesture = NoGesture

RenderNodesStep ==
    \E newNodes \in AttrNodeLists, newConns \in AttrConnLists, nodesCh \in BOOLEAN,
       connsCh \in BOOLEAN :
       Render(newNodes, newConns, readonly, nodesCh, connsCh)

NextNodes == RenderNodesStep \/ UserConnectStep \/ UserDetachStep

SpecNodes == InitNodes /\ [][NextNodes]_vars

\* the endpoint identities of the declared nodes that have a registered element
DeclaredUuids ==
    UNION {{getEndpointUuid(n.id, p) : p \in EffectivePorts(n)}
           : n \in {x \in nodes : x.id \in nodeRefs}}

\* the identities of the live endpoints of the engine
LiveUuids == {e.uuid : e \in endpoints}

\* the last step was a commit whose endpoint synchronization ran
EndpointPass == last.kind = "render" /\ last.ep

(* C27: after every endpoint synchronization pass the live endpoint
   identities are exactly the identities of the effective ports of the
   declared nodes that have a registered element, and the endpoint map holds
   exactly that set: what was live outside it has been deleted. *)
C27_EndpointSetEquality ==
    EndpointPass =>
        /\ LiveUuids = DeclaredUuids
        /\ endpointMapRef = DeclaredUuids
        /\ ops.epDeleted \cap DeclaredUuids = {}

\* a pass that deleted the endpoint of a removed port and added one
C27_Witness ==
    /\ EndpointPass
    /\ ops.epDeleted = {"a:default"}
    /\ ops.epAdded = {"a:p"}
    /\ LiveUuids = {"a:p", "b:default"}
    /\ endpointMapRef = LiveUuids

\* the flags a port mode stands for, an absent mode being bidirectional
ModeFlags(mode) ==
    CASE mode = "source" -> [isSource |-> TRUE, isTarget |-> FALSE]
      [] mode = "target" -> [isSource |-> FALSE, isTarget |-> TRUE]
      [] OTHER -> [isSource |-> TRUE, isTarget |-> TRUE]

\* every declared port's endpoint carries the flags of the port's mode and the
\* port's anchor
FlagsAsDeclared ==
    \A x \in NextPorts(nodes) :
        /\ x.uuid \in DOMAIN endpointAttr
        /\ endpointAttr[x.uuid].isSource = ModeFlags(x.port.mode).isSource
        /\ endpointAttr[x.uuid].isTarget = ModeFlags(x.port.mode).isTarget
        /\ endpointAttr[x.uuid].anchor =
              (IF x.port.anchor = Undefined THEN "AutoDefault" ELSE x.port.anchor)

\* the live endpoints whose identity is declared before and after the step
StaysDeclared == (LiveUuids \cap DeclaredUuids) \cap DeclaredUuids'

(* C28: an endpoint whose identity stays declared across a synchronization
   pass is neither deleted nor created again by it, whatever happened to its
   port's anchor or mode, so the connections between such endpoints stay live
   when the commit runs no connection reconcile; after every pass each
   endpoint has isSource = (mode is not target), isTarget = (mode is not
   source), an absent mode counting as bidirectional. *)
C28_EndpointKeptInPlace ==
    [][EndpointPass' =>
         /\ \A uuid \in StaysDeclared :
               /\ uuid \in LiveUuids'
               /\ uuid \notin ops'.epDeleted
               /\ uuid \notin ops'.epAdded
         /\ ~last'.conn =>
               \A i \in DOMAIN conns :
                  (conns[i].src.uuid \in StaysDeclared /\ conns[i].tgt.uuid \in StaysDeclared)
                      => \E j \in DOMAIN conns' : conns'[j] = conns[i]
         /\ FlagsAsDeclared'
    ]_vars

\* a pass found the endpoint of port p, which carries a connection as its
\* source, and made it a target anchored at the top, in place
C28_Witness ==
    /\ EndpointPass
    /\ ~last.conn
    /\ "a:p" \in LiveUuids
    /\ "a:p" \notin ops.epAdded
    /\ endpointAttr["a:p"] = [anchor |-> "Top", isSource |-> FALSE, isTarget |-> TRUE]
    /\ \E i \in DOMAIN conns : conns[i].src.uuid = "a:p"

\* the last step was a commit whose node synchronization ran
NodePass == last.kind = "render" /\ last.node

(* C29: after every node synchronization pass the engine manages exactly the
   declared nodes that have a registered element; the elements it stopped
   managing were not removed from the layout; every managed node sits at its
   declared position and is draggable exactly when the canvas is not readonly
   and the node does not disable dragging. *)
C29_ManagedSetEquality ==
    NodePass =>
        /\ managed = NodeIdsOf(nodes) \cap nodeRefs
        /\ DOMAIN elementAttr = managed
        /\ ops.elRemoved = {}
        /\ \A n \in nodes :
              n.id \in managed =>
                 /\ elementAttr[n.id].left = Px(n.position.x)
                 /\ elementAttr[n.id].top = Px(n.position.y)
                 /\ elementAttr[n.id].draggable = (~readonly /\ ~n.disableDrag)

\* a pass stopped managing node a, whose endpoint went with it, and left node b
\* managed at its position with dragging disabled by the node
C29_Witness ==
    /\ NodePass
    /\ ~readonly
    /\ nodes = {NodeBd}
    /\ managed = {"b"}
    /\ "a:default" \in ops.epDeleted
    /\ elementAttr["b"] = [left |-> Px(PositionB.x), top |-> Px(PositionB.y),
                           draggable |-> FALSE]

\* the last step was a commit whose connection reconcile ran
ConnectionReconcile == last.kind = "render" /\ last.conn

(* C30: the connection reconcile of a commit resolves endpoints against the
   endpoint map of that commit's node list: when it runs, the endpoint map
   holds exactly the endpoint identities of the nodes declared in the same
   render, never the map an earlier render left. *)
C30_SameRenderMap ==
    ConnectionReconcile => endpointMapRef = DeclaredUuids

----------------------------------------------------------------------------
(* Claims about the handlers and the overlays of the connections. *)

\* the notifications of one type the last step delivered
NotesOf(type) == SelectSeq(notes, LAMBDA n : n.type = type)

\* the last step was a double click on a connection that has handlers
DoubleClickedConnection ==
    /\ gesture.kind = "dblclick"
    /\ gesture.target.kind = "connection"
    /\ gesture.target.id # Undefined

(* C31: the interaction handlers are bound exactly once on every live
   connection a reconcile pass matched or created, however many passes ran:
   one click on a connection delivers exactly one connection-click
   notification and makes exactly one selection transition, and one double
   click delivers exactly one double-click notification. *)
C31_HandlersOnce ==
    /\ \A i \in DOMAIN conns : conns[i].tag # Undefined => conns[i].nbind = 1
    /\ ClickedConnection =>
          /\ NotesOf("onLinkClick") = <<[type |-> "onLinkClick", id |-> gesture.target.id]>>
          /\ Len(SelectionNotes) = 1
    /\ DoubleClickedConnection =>
          NotesOf("onLinkDoubleClick") =
              <<[type |-> "onLinkDoubleClick", id |-> gesture.target.id]>>

----------------------------------------------------------------------------
(* Commits that change the declared connections of two mounted nodes, the    *)
(* user's connect and detach gestures, and clicks on the connectors and the  *)
(* delete buttons of the live connections.                                   *)

LinkConnLists ==
    {<<>>,
     <<FlowConnection("e1", <<RefA, RefB>>)>>,
     <<FlowConnection("e2", <<RefA, RefB>>)>>,
     <<FlowConnection("e1", <<RefB, RefA>>)>>,
     <<FlowConnection("e2", <<RefA, RefB>>), FlowConnection("e1", <<RefA, RefB>>)>>,
     <<FlowConnection("e1", <<RefA, RefB>>), FlowConnection("e2", <<RefB, RefA>>)>>,
     <<StyledConnection("e1", <<RefA, RefB>>, "to b", "hot", "false")>>,
     <<StyledConnection("e1", <<RefA, RefB>>, Undefined, "cold", "true")>>}

\* a mounted canvas showing nodes a and b after a first full commit
InitLinks ==
    /\ nodes = {NodeA, NodeB}
    /\ connections \in LinkConnLists
    /\ readonly = FALSE
    /\ \E w \in {FirstCommit(nodes, connections)} :
          /\ managed = w.managed
          /\ endpoints = w.endpoints
          /\ conns = Live(w.objs)
          /\ endpointMapRef = w.emap
          /\ connectionMapRef = Remap(w.cmap, w.objs)
          /\ endpointAttr = w.epAttr
          /\ elementAttr = w.elAttr
          /\ pending = w.skipped
          /\ ops = w.ops
    /\ nodeAttr = NodeIdsOf(nodes)
    /\ syncingRef = FALSE
    /\ notes = <<>>
    /\ last = Step("render", TRUE, TRUE, TRUE)
    /\ stable = 1
    /\ SelectionInit
    /\ ZoomInit(None)
    /\ PanInit
    /\ gesture = NoGesture

\* a commit with a new connections array and the same nodes array
RenderLinksStep ==
    \E newConns \in LinkConnLists : Render(nodes, newConns, readonly, FALSE, TRUE)

\* an unmodified click on a connector or on the button of a delete overlay
ClickLinkStep ==
    \E target \in {t \in ClickTargets : t.kind \in {"connection", "deleteButton"}} :
        Click(target, [metaKey |-> FALSE, ctrlKey |-> FALSE, shiftKey |-> FALSE])

\* the embedder renders with another selectedConnections
SelectLinksStep ==
    \E sc \in ConnectionSelections : SelectionProps(selectedNodes, sc, allowMultiSelect)

NextLinks ==
    \/ RenderLinksStep
    \/ UserConnectStep
    \/ UserDetachStep
    \/ ClickLinkStep
    \/ SelectLinksStep

SpecLinks == InitLinks /\ [][NextLinks]_vars

\* the last step was a click on the button of a delete overlay
ClickedDeleteButton == Clicked({"deleteButton"})

(* C32: every connection carries at most one delete overlay per connection
   identity, the one of its tag included, however many passes ran; a click on
   a delete button notifies the deletion of its identity only while that
   identity is tracked, and notifies nothing once the identity has been
   removed from the declared connections. *)
C32_DeleteOverlay ==
    /\ \A i \in DOMAIN conns :
          conns[i].tag # Undefined => conns[i].tag \in conns[i].overlays
    /\ ClickedDeleteButton =>
          /\ NotesOf("onDeleteLink") # <<>> => Has(connectionMapRef, gesture.target.id)
          /\ gesture.target.id \notin Ids(connections) => NotesOf("onDeleteLink") = <<>>

\* the declared connection with an identity
DeclaredOf(id) == connections[CHOOSE k \in DOMAIN connections : connections[k].id = id]

\* the identities the tracked-connection map holds with a live connection
TrackedLive == {id \in DOMAIN connectionMapRef : connectionMapRef[id] # 0}

\* the classes of a connection other than the ones the component always sets
\* or toggles
StyleClasses(c) == c.classes \ {"jr-connection", "jr-selected", "jr-hover"}

\* the tracked connection of a declared identity carries the identity's metadata
MetadataOf(id) ==
    LET c == conns[connectionMapRef[id]]
        data == DeclaredOf(id)
    IN  /\ c.tag = id
        /\ StyleClasses(c) = (IF data.className = Undefined THEN {} ELSE {data.className})
        /\ c.detachable = (data.editable # "false")
        /\ c.label = (IF data.label = Undefined THEN "" ELSE data.label)
        /\ ("jr-selected" \in c.classes) = (id \in Range(selection.connections))

(* C33: after every connection reconcile pass and every change of the
   connection selection, each tracked live connection of a declared identity
   carries that identity as its tag, exactly the declared style class,
   detachable = (editable is not false), the declared label (empty when
   absent), and the selected class if and only if its identity is in the
   current connection selection. *)
C33_Metadata ==
    last.conn => \A id \in TrackedLive \cap Ids(connections) : MetadataOf(id)

----------------------------------------------------------------------------
(* Claims about the notifications of direct manipulation. *)

\* the connection-created notifications of the last step
Created == NotesOf("onLinkCreate")

\* getEndpointUuid of an endpoint reference of a draft
IdentityOf(ref) == getEndpointUuid(ref.nodeId, ref.portId)

(* C34: the connection-created notification fires exactly once for every
   connection the user draws and in no other step; the draft it carries names
   the endpoints the user connected, identity for identity, and reports the
   default port as an omitted portId. *)
C34_CreatedOnceRoundTrip ==
    /\ last.kind # "connect" => Created = <<>>
    /\ last.kind = "connect" =>
          /\ Len(Created) = 1
          /\ IdentityOf(Created[1].draft.source) = ops.drawn[1].uuid
          /\ IdentityOf(Created[1].draft.target) = ops.drawn[2].uuid
          /\ (Created[1].draft.source.portId = Undefined)
                = (ops.drawn[1].portId = DEFAULT_PORT_ID)
          /\ (Created[1].draft.target.portId = Undefined)
                = (ops.drawn[2].portId = DEFAULT_PORT_ID)

\* the user drew a connection from port p of node a to the default port of
\* node b
C34_Witness ==
    /\ last.kind = "connect"
    /\ ops.drawn[1].uuid = "a:p"
    /\ ops.drawn[2].uuid = "b:default"
    /\ Created[1].draft =
          [source |-> [nodeId |-> "a", portId |-> "p"],
           target |-> [nodeId |-> "b", portId |-> Undefined]]

----------------------------------------------------------------------------
(* Claims about a new engine instance. *)

\* the instance was created by the last step and no layout effect has run
\* against it yet
InstanceCreated == last.kind = "mount"

(* C35: when an engine instance has been created the declared nodes are
   managed in it, their endpoints are live in it and recorded in the endpoint
   map, and every declared connection whose endpoints are declared is live,
   without any further change of the nodes or connections inputs. *)
C35_NewInstancePopulated ==
    InstanceCreated =>
        /\ managed = NodeIdsOf(nodes)
        /\ LiveUuids = DeclaredUuids
        /\ endpointMapRef = DeclaredUuids
        /\ \A i \in ResolvableIn(connections, DeclaredUuids) :
              Tagged(conns, connections[i].id) # {}

----------------------------------------------------------------------------
(* Claims about the bookkeeping of the connection reconcile. *)

(* C36: within one connection reconcile pass a connection the pass has
   already deleted (its identity matched, its endpoint pair did not) is never
   afterwards reused by endpoint pair, tagged or recorded in the
   tracked-connection map for another declared connection. *)
C36_DeletedNeverReused ==
    AfterConnectionPass => ops.deadReuse = {}

\* the last step was a direct-manipulation detach
AfterDetach == last.kind = "detach"

\* the declared identities that tag a live connection
DeclaredLive == {id \in Ids(connections) : Tagged(conns, id) # {}}

(* C37: after every connection reconcile pass, and after a direct-manipulation
   detach or an endpoint deletion that follows it, the tracked-connection map
   holds exactly the declared identities that have a live connection, each
   mapped to that connection: no identity is kept whose connection the engine
   has removed, and no two identities map to one connection. *)
C37_TrackedExact ==
    (AfterConnectionPass \/ AfterDetach \/ EndpointPass) =>
        /\ DOMAIN connectionMapRef = DeclaredLive
        /\ \A id \in DOMAIN connectionMapRef :
              /\ connectionMapRef[id] # 0
              /\ connectionMapRef[id] \in Tagged(conns, id)
        /\ \A id1, id2 \in DOMAIN connectionMapRef :
              connectionMapRef[id1] = connectionMapRef[id2] => id1 = id2

----------------------------------------------------------------------------
(* Claims about the identity a click on a connection reports. *)

(* C38: a click on a live connection reports, in the connection-click
   notification, and selects the identity the connection is tagged with at the
   time of the click, also when the connection was re-identified by
   endpoint-pair reuse after its handlers were bound. *)
C38_ClickReportsTag ==
    (last.kind = "click" /\ ClickedConnection /\ ~Modified(gesture.event)
        /\ selectedConnections = None) =>
        /\ NotesOf("onLinkClick") =
              <<[type |-> "onLinkClick", id |-> gesture.target.tag]>>
        /\ SelectionNotes[1].connections = <<gesture.target.tag>>

----------------------------------------------------------------------------
(* Claims about clicks handled before the next commit. *)

\* the last step handled modifier-clicks on two distinct unselected nodes
\* before a commit, multi-select enabled and both sets owned by the manager
BatchOfTwoFresh ==
    /\ gesture.kind = "batch"
    /\ allowMultiSelect
    /\ selectedNodes = None
    /\ selectedConnections = None
    /\ Modified(gesture.events[1])
    /\ Modified(gesture.events[2])
    /\ gesture.first.id # gesture.second.id
    /\ {gesture.first.id, gesture.second.id} \cap Range(gesture.before.nodes) = {}

(* C39: a selection transition is computed against the selection all earlier
   clicks produced: modifier-clicks on distinct unselected nodes N1 and N2,
   multi-select enabled and both sets owned by the manager, leave both
   selected, also when the second click is handled before the commit that
   publishes the first click's result to the latest-selection reference. *)
C39_BatchedClicksAccumulate ==
    BatchOfTwoFresh =>
        {gesture.first.id, gesture.second.id} \subseteq Range(selection.nodes)

----------------------------------------------------------------------------
(* Commits whose connection reconcile throws, among the commits and gestures *)
(* of two mounted nodes.                                                     *)

\* the component is mounted: no effect has thrown
Mounted == last.kind # "throw"

\* a commit whose connection reconcile throws inside jp.batch: the finally
\* clause runs, React unmounts the component, and the cleanup of the instance
\* effect destroys the instance and clears both maps
RenderThrows(newConns) ==
    /\ Mounted
    /\ connections' = newConns
    /\ managed' = {}
    /\ endpoints' = {}
    /\ conns' = <<>>
    /\ endpointMapRef' = {}
    /\ connectionMapRef' = EmptyMap
    /\ endpointAttr' = EmptyMap
    /\ elementAttr' = EmptyMap
    /\ nodeAttr' = {}
    /\ syncingRef' = AfterPass(TRUE)
    /\ notes' = <<>>
    /\ ops' = NoOps
    /\ last' = Step("throw", FALSE, FALSE, TRUE)
    /\ pending' = {}
    /\ stable' = 0
    /\ engineZoom' = EngineDefaultZoom
    /\ UNCHANGED <<nodes, readonly, selVars, zoomProp, zoomState, zoomRef, pan, panRef,
                   wheels, panVars, gesture>>

RenderThrowsStep == \E newConns \in LinkConnLists : RenderThrows(newConns)

NextThrow ==
    \/ Mounted /\ RenderLinksStep
    \/ UserConnectStep
    \/ UserDetachStep
    \/ RenderThrowsStep

SpecThrow == InitLinks /\ [][NextThrow]_vars

\* the connection-detached notifications of the last step
Detached == NotesOf("onLinkDetached")

(* C40: the reentrancy guard is false whenever no node synchronization or
   connection reconcile is executing, also after a pass that threw; so every
   connection the user draws between passes is notified as created and every
   connection the user detaches between passes is notified as detached. *)
C40_GuardReset ==
    /\ syncingRef = FALSE
    /\ last.kind = "connect" => Len(Created) = 1
    /\ last.kind = "detach" => Len(Detached) = 1

\* a connection reconcile has thrown and the guard is false
C40_Witness ==
    /\ last.kind = "throw"
    /\ syncingRef = FALSE

====
